---- MODULE Spec2Model ----
(***************************************************************************)
(* Certificate lifecycle manager and renewal scheduler of                  *)
(* traefik-cert-manager (package internal/certmanager).                    *)
(*                                                                         *)
(* Time is counted in whole days (in hours where the certificate entity    *)
(* is examined alone).  A certificate is the call that issued it (serial), *)
(* what its bytes parse to and its ExpiresAt field.  Goroutines are the    *)
(* processes of Procs: "loop" is the goroutine started by Scheduler.Start  *)
(* (Scheduler.run), the clients are callers of the public methods of       *)
(* CertificateManager, Scheduler, RenewalChecker and RenewalService.       *)
(***************************************************************************)
EXTENDS Integers, FiniteSets, Sequences, TLC

\* ------------------------------------------------------------------ bounds
MaxTime == 2
MaxCalls == 2
Lifetime == 2
MaxRenewalDays == 1
MaxRuns == 2
MaxResched == 1
MaxManual == 1
MaxHours == 36

\* ------------------------------------------------------------ the universe
Domains == {"d1", "d2"}
Clients == {"c1", "c2"}
Loop == "loop"
Procs == Clients \cup {Loop}

\* a certificate object: the call that issued its bytes (serial), what parsing the
\* bytes yields (wellFormed, notAfter) and the ExpiresAt field
NoCert == [serial |-> 0, expiresAt |-> 0, notAfter |-> 0, wellFormed |-> FALSE]
PreSerial == 1
\* the bytes of a <domain>.crt file, and the two files of a domain
NoPEM == [serial |-> 0, notAfter |-> 0, wellFormed |-> FALSE]
NoFile == [crt |-> NoPEM, key |-> 0]
\* the zero time.Time: earlier than every instant of the model
ZeroTime == -1000
NoRegistry == [d \in Domains |-> NoCert]

\* no map returned by ListCertificates; no certificate entity under test
NoHeld == [c \in Clients |-> [d \in Domains |-> 0]]
NoProbe == [expiresAt |-> 0, days |-> 0, at |-> 0, method |-> "none", flag |-> FALSE, value |-> 0]

\* no read-only call has returned; no task (a nil *RenewalTask)
NoAnswer == [op |-> "none", domain |-> "", ok |-> FALSE, cert |-> NoCert,
             health |-> [d \in {} |-> 0], flag |-> FALSE]
NoTask == [id |-> 0, priority |-> 0, scheduledAt |-> 0]

\* return values: no call returned yet, a nil error, an error naming domains
NoResult == [kind |-> "none", op |-> "", domains |-> {}]
Ok(o, ds) == [kind |-> "nil", op |-> o, domains |-> ds]
Err(o, ds) == [kind |-> "err", op |-> o, domains |-> ds]

VARIABLES
  now,          \* time.Now(), in days
  renewalDays,  \* cm.config.Certificates.RenewalDays
  certs,        \* cm.certs: domain -> certificate (NoCert: no entry)
  disk,         \* the storage directory: domain -> <domain>.crt, <domain>.key
  mu,           \* cm.mu: the goroutine holding it exclusively, or "none"
  acmeCalls,    \* number of RequestCertificate/RenewCertificate calls made to the adapter
  pc,           \* each goroutine's position
  op,           \* the public method each goroutine is executing
  dom,          \* the domain argument of the manager call in progress
  call,         \* the number of the adapter call a goroutine has in flight
  renewIn,      \* the certificate handed to acmeClient.RenewCertificate
  pre,          \* history: the registry as it was when the manager call in progress began
  todo,         \* batch: domains of the health snapshot not yet visited
  flagged,      \* batch: domains the health snapshot flags needsRenewal
  errs,         \* batch: domains whose renewal failed
  ctxErr,       \* batch: ctx.Err() of the context the batch runs under
  result,       \* the value returned by the call that returned last
  renewed,      \* performRenewalWithContext: renewalCount
  runErr,       \* performRenewalCheck: the error performRenewalWithContext returned
  isRunning,    \* s.isRunning
  smu,          \* s.mu: the goroutine holding it exclusively, or "none"
  sctx,         \* s.ctx, made once by NewScheduler: "live" or "canceled"
  ticker,       \* s.ticker: the number of the ticker the field points to
  stopped,      \* the tickers on which Stop() was called
  tickC,        \* the tickers whose channel holds a tick
  loopTicker,   \* the ticker whose channel the select of run() receives from
  wg,           \* s.wg: the WaitGroup counter
  stats,        \* s.stats counters
  await,        \* history: Reschedule succeeded and no check has begun since
  checks,       \* history: the number of renewal checks begun, by the loop or by RunOnce
  constructed,  \* NewCertificateManager has returned: the manager can be called
  certFiles,    \* loadExistingCertificates: the domains found in the directory, not yet loaded
  held,         \* the map ListCertificates returned to a caller: domain -> the object it points to
  probe,        \* a certificate entity under test: its inputs and the value a method returned
  answer,       \* the value returned by the read-only call that returned last
  rlocks,       \* s.mu: the number of shared holds each goroutine has
  lockWait,     \* s.mu: the goroutines blocked in Lock(), which bar new readers
  tasks,        \* rq.tasks of the RenewalQueue
  nextTask      \* what GetNextTask returned last

mgrVars == <<now, renewalDays, certs, disk, mu, acmeCalls>>
procVars == <<pc, op, dom, call, renewIn, pre, todo, flagged, errs, ctxErr, result, renewed, runErr>>
schedVars == <<isRunning, smu, sctx, ticker, stopped, tickC, loopTicker, wg, stats, await>>
svcVars == <<answer, rlocks, lockWait, tasks, nextTask>>
auxVars == <<constructed, certFiles, held, probe, svcVars>>
vars == <<mgrVars, procVars, schedVars, checks, auxVars>>

\* ------------------------------------------------- certificate entity
IsExpiredMutant(cert, t) == t >= cert.expiresAt

IsExpired(cert, t) == t > cert.expiresAt

NeedsRenewal(cert, days, t) == t > cert.expiresAt - days

\* ------------------------------------------------- ACME adapter and store
AcmeOutcomes == {"ok", "acme_err", "crt_write_err", "key_write_err"}

\* the Certificate field of a certificate object
PEM(cert) == [serial |-> cert.serial, notAfter |-> cert.notAfter, wellFormed |-> cert.wellFormed]

\* parseCertificate: ExpiresAt becomes the leaf's NotAfter; left alone when the bytes
\* do not decode or parse
parseCertificate(cert) ==
  IF cert.wellFormed
    THEN [ok |-> TRUE, cert |-> [cert EXCEPT !.expiresAt = cert.notAfter]]
    ELSE [ok |-> FALSE, cert |-> cert]

\* the Certificate object the adapter builds from the answer of the CA to its call
\* number n at time t, before it parses it
Obtained(n, t, life, wf) ==
  [serial |-> PreSerial + n, expiresAt |-> ZeroTime,
   notAfter |-> IF wf THEN t + life ELSE 0, wellFormed |-> wf]

\* the certificate the adapter makes of a well-formed answer of the CA
NewCertificate(n, t, life) == parseCertificate(Obtained(n, t, life, TRUE)).cert

saveCertificate(dsk, d, cert, outcome) ==
  CASE outcome = "ok" -> [dsk EXCEPT ![d] = [crt |-> PEM(cert), key |-> cert.serial]]
    [] outcome = "key_write_err" -> [dsk EXCEPT ![d].crt = PEM(cert)]
    [] OTHER -> dsk

\* the Certificate object LoadCertificate builds from the files of d, before parsing
Read(dsk, d) ==
  [serial |-> dsk[d].crt.serial, expiresAt |-> ZeroTime,
   notAfter |-> dsk[d].crt.notAfter, wellFormed |-> dsk[d].crt.wellFormed]

LoadCertificate(dsk, d) ==
  IF dsk[d].crt = NoPEM \/ dsk[d].key = 0
    THEN [ok |-> FALSE, cert |-> NoCert]
    ELSE IF parseCertificate(Read(dsk, d)).ok
           THEN [ok |-> TRUE, cert |-> parseCertificate(Read(dsk, d)).cert]
           ELSE [ok |-> FALSE, cert |-> NoCert]

AdapterResultMutant(cert, outcome) ==
  IF outcome # "acme_err" THEN [ok |-> TRUE, cert |-> cert] ELSE [ok |-> FALSE, cert |-> NoCert]

\* what ACMEClient.RequestCertificate / RenewCertificate return
AdapterResult(cert, outcome) ==
  IF outcome = "ok" THEN [ok |-> TRUE, cert |-> cert] ELSE [ok |-> FALSE, cert |-> NoCert]

\* ------------------------------------------------- CertificateManager
\* cm.mu.Lock() / cm.mu.RLock() return when nobody holds the lock exclusively
\* (readers never stay inside their critical section in this model)
CanLockMutant(m) == TRUE

CanLock(m) == m = "none"

RequestSkipsMutant(reg, d, days, t) ==
  /\ reg[d] # NoCert
  /\ ~IsExpired(reg[d], t)
  /\ NeedsRenewal(reg[d], days, t)

\* manager.go: the test that makes RequestCertificate return without a request
RequestSkips(reg, d, days, t) ==
  /\ reg[d] # NoCert
  /\ ~IsExpired(reg[d], t)
  /\ ~NeedsRenewal(reg[d], days, t)

RequestCommitMutant(reg, d, res) == [reg EXCEPT ![d] = res.cert]

\* the registry after the adapter's RequestCertificate returned res
RequestCommit(reg, d, res) == IF res.ok THEN [reg EXCEPT ![d] = res.cert] ELSE reg

RequestReturn(d, res) ==
  IF res.ok THEN Ok("RequestCertificate", {d}) ELSE Err("RequestCertificate", {d})

RenewCommitMutant(reg, d, res) == [reg EXCEPT ![d] = res.cert]

RenewCommitStaleMutant(reg, d, res) == reg

\* the registry after the adapter's RenewCertificate returned res
RenewCommit(reg, d, res) == IF res.ok THEN [reg EXCEPT ![d] = res.cert] ELSE reg

RenewReturn(d, res) ==
  IF res.ok THEN Ok("RenewCertificate", {d}) ELSE Err("RenewCertificate", {d})

RenewLookupMutant(reg, dsk, d) ==
  IF reg[d] # NoCert THEN [ok |-> TRUE, cert |-> reg[d]] ELSE [ok |-> FALSE, cert |-> NoCert]

\* the certificate RenewCertificate works on: the registry entry, else the stored one
RenewLookup(reg, dsk, d) ==
  IF reg[d] # NoCert THEN [ok |-> TRUE, cert |-> reg[d]] ELSE LoadCertificate(dsk, d)

GetCertificateMutant(reg, d) == [ok |-> TRUE, cert |-> reg[d]]

GetCertificate(reg, d) ==
  IF reg[d] # NoCert THEN [ok |-> TRUE, cert |-> reg[d]] ELSE [ok |-> FALSE, cert |-> NoCert]

\* CheckCertificateHealth: one entry per registry entry
CheckCertificateHealth(reg, days, t) ==
  [d \in {x \in Domains : reg[x] # NoCert} |->
     LET expired == IsExpired(reg[d], t)
         needs == NeedsRenewal(reg[d], days, t)
     IN  [isExpired |-> expired, needsRenewal |-> needs,
          status |-> IF expired THEN "expired"
                     ELSE IF needs THEN "needs_renewal" ELSE "valid"]]

FlaggedMutant(health) == DOMAIN health

Flagged(health) == {d \in DOMAIN health : health[d].needsRenewal}

\* where a manager call returns to: the caller of the public method, or the batch loop
Back(p) == IF op[p] \in {"RequestCertificate", "RenewCertificate"} THEN "idle" ELSE "batch"

\* the configured domains in the order of cm.config.GetAllDomains()
Configured == <<"d1", "d2">>

\* the next domain of a range over the configured domains not yet visited
NextDomain(td) ==
  Configured[CHOOSE i \in 1..Len(Configured) :
               /\ Configured[i] \in td
               /\ \A j \in 1..(i - 1) : Configured[j] \notin td]

\* select on ctx.Done() with a default branch: the batch goes on
CtxLive(e) == e = "nil"

RemainingMutant(td, d, ok) == IF ok THEN td \ {d} ELSE {}

\* the domains a batch still has to visit after it visited d
Remaining(td, d, ok) == td \ {d}

\* RequestCertificate up to the call into the adapter (or the early return), called
\* directly or by ProcessAllDomains for its next domain
RequestBegin(p, d) ==
  /\ p \in Clients
  /\ \/ pc[p] = "idle"
     \/ /\ pc[p] = "batch" /\ op[p] = "ProcessAllDomains"
        /\ todo[p] # {} /\ d = NextDomain(todo[p]) /\ CtxLive(ctxErr[p])
  /\ CanLock(mu)
  /\ LET direct == pc[p] = "idle"
     IN  IF RequestSkips(certs, d, renewalDays, now)
           THEN /\ IF direct
                     THEN /\ result' = Ok("RequestCertificate", {d})
                          /\ UNCHANGED todo
                     ELSE /\ todo' = [todo EXCEPT ![p] = Remaining(@, d, TRUE)]
                          /\ UNCHANGED result
                /\ UNCHANGED <<mu, acmeCalls, pc, op, dom, call, pre>>
           ELSE /\ acmeCalls < MaxCalls
                /\ pre' = [pre EXCEPT ![p] = certs]
                /\ mu' = p
                /\ acmeCalls' = acmeCalls + 1
                /\ call' = [call EXCEPT ![p] = acmeCalls + 1]
                /\ pc' = [pc EXCEPT ![p] = "request_acme"]
                /\ op' = [op EXCEPT ![p] = IF direct THEN "RequestCertificate" ELSE @]
                /\ dom' = [dom EXCEPT ![p] = d]
                /\ UNCHANGED <<result, todo>>
  /\ UNCHANGED <<now, renewalDays, certs, disk, renewIn, flagged, errs, ctxErr>>
  /\ UNCHANGED <<renewed, runErr, schedVars>>
  /\ UNCHANGED <<checks, auxVars>>

\* the adapter's RequestCertificate returns; RequestCertificate commits and returns
RequestEnd(p) ==
  /\ pc[p] = "request_acme"
  /\ \E outcome \in AcmeOutcomes, life \in {Lifetime} :
       LET d == dom[p]
           cert == NewCertificate(call[p], now, life)
           res == AdapterResult(cert, outcome)
       IN  /\ disk' = IF outcome = "acme_err" THEN disk
                      ELSE saveCertificate(disk, d, cert, outcome)
           /\ certs' = RequestCommit(certs, d, res)
           /\ IF Back(p) = "idle"
                THEN /\ result' = RequestReturn(d, res)
                     /\ op' = [op EXCEPT ![p] = "none"]
                     /\ UNCHANGED <<todo, errs>>
                ELSE /\ errs' = [errs EXCEPT ![p] = IF res.ok THEN @ ELSE @ \cup {d}]
                     /\ todo' = [todo EXCEPT ![p] = Remaining(@, d, res.ok)]
                     /\ UNCHANGED <<result, op>>
  /\ mu' = "none"
  /\ pc' = [pc EXCEPT ![p] = Back(p)]
  /\ dom' = [dom EXCEPT ![p] = ""]
  /\ call' = [call EXCEPT ![p] = 0]
  /\ pre' = [pre EXCEPT ![p] = NoRegistry]
  /\ UNCHANGED <<now, renewalDays, acmeCalls, renewIn, flagged, ctxErr>>
  /\ UNCHANGED <<renewed, runErr, schedVars>>
  /\ UNCHANGED <<checks, auxVars>>

\* RenewCertificate up to the call into the adapter's RenewCertificate (or the
\* not-found return), called directly or from a batch for a flagged domain
RenewBegin(p, d) ==
  /\ \/ p \in Clients /\ pc[p] = "idle"
     \/ pc[p] = "batch" /\ d \in todo[p] \cap flagged[p] /\ CtxLive(ctxErr[p])
  /\ CanLock(mu)
  /\ LET found == RenewLookup(certs, disk, d)
         direct == pc[p] = "idle"
     IN  IF ~found.ok
           THEN /\ IF direct
                     THEN /\ result' = Err("NotFound", {d})
                          /\ UNCHANGED <<todo, errs>>
                     ELSE /\ errs' = [errs EXCEPT ![p] = @ \cup {d}]
                          /\ todo' = [todo EXCEPT ![p] = Remaining(@, d, FALSE)]
                          /\ UNCHANGED result
                /\ UNCHANGED <<certs, mu, acmeCalls, pc, op, dom, call, renewIn, pre>>
           ELSE /\ acmeCalls < MaxCalls
                /\ pre' = [pre EXCEPT ![p] = certs]
                /\ certs' = [certs EXCEPT ![d] = found.cert]
                /\ mu' = p
                /\ acmeCalls' = acmeCalls + 1
                /\ call' = [call EXCEPT ![p] = acmeCalls + 1]
                /\ renewIn' = [renewIn EXCEPT ![p] = found.cert]
                /\ pc' = [pc EXCEPT ![p] = "renew_acme"]
                /\ op' = [op EXCEPT ![p] = IF direct THEN "RenewCertificate" ELSE @]
                /\ dom' = [dom EXCEPT ![p] = d]
                /\ UNCHANGED <<result, todo, errs>>
  /\ UNCHANGED <<now, renewalDays, disk, flagged, ctxErr>>
  /\ UNCHANGED <<renewed, runErr, schedVars>>
  /\ UNCHANGED <<checks, auxVars>>

\* the adapter's RenewCertificate returns; RenewCertificate commits and returns
RenewEnd(p) ==
  /\ pc[p] = "renew_acme"
  /\ \E outcome \in AcmeOutcomes, life \in {Lifetime} :
       LET d == dom[p]
           cert == NewCertificate(call[p], now, life)
           res == AdapterResult(cert, outcome)
       IN  /\ disk' = IF outcome = "acme_err" THEN disk
                      ELSE saveCertificate(disk, d, cert, outcome)
           /\ certs' = RenewCommit(certs, d, res)
           /\ IF Back(p) = "idle"
                THEN /\ result' = RenewReturn(d, res)
                     /\ op' = [op EXCEPT ![p] = "none"]
                     /\ UNCHANGED <<todo, errs, renewed>>
                ELSE /\ errs' = [errs EXCEPT ![p] = IF res.ok THEN @ ELSE @ \cup {d}]
                     /\ renewed' = [renewed EXCEPT ![p] =
                                      IF res.ok /\ op[p] \in {"check", "RunOnce"} THEN @ + 1 ELSE @]
                     /\ todo' = [todo EXCEPT ![p] = Remaining(@, d, res.ok)]
                     /\ UNCHANGED <<result, op>>
  /\ mu' = "none"
  /\ pc' = [pc EXCEPT ![p] = Back(p)]
  /\ dom' = [dom EXCEPT ![p] = ""]
  /\ call' = [call EXCEPT ![p] = 0]
  /\ renewIn' = [renewIn EXCEPT ![p] = NoCert]
  /\ pre' = [pre EXCEPT ![p] = NoRegistry]
  /\ UNCHANGED <<now, renewalDays, acmeCalls, flagged, ctxErr>>
  /\ UNCHANGED <<runErr, schedVars>>
  /\ UNCHANGED <<checks, auxVars>>

\* RenewExpiredCertificates: the health snapshot
RenewExpiredBegin(p) ==
  /\ p \in Clients /\ pc[p] = "idle"
  /\ CanLock(mu)
  /\ LET health == CheckCertificateHealth(certs, renewalDays, now)
     IN  /\ todo' = [todo EXCEPT ![p] = Flagged(health)]
         /\ flagged' = [flagged EXCEPT ![p] = Flagged(health)]
  /\ errs' = [errs EXCEPT ![p] = {}]
  /\ pc' = [pc EXCEPT ![p] = "batch"]
  /\ op' = [op EXCEPT ![p] = "RenewExpiredCertificates"]
  /\ UNCHANGED <<mgrVars, dom, call, renewIn, pre, ctxErr, result>>
  /\ UNCHANGED <<renewed, runErr, schedVars>>
  /\ UNCHANGED <<checks, auxVars>>

\* RenewExpiredCertificates: ctx.Done() is seen before a flagged domain
RenewExpiredCancelled(p) ==
  /\ pc[p] = "batch" /\ op[p] = "RenewExpiredCertificates"
  /\ todo[p] # {} /\ ~CtxLive(ctxErr[p])
  /\ result' = Err(ctxErr[p], {})
  /\ pc' = [pc EXCEPT ![p] = "idle"]
  /\ op' = [op EXCEPT ![p] = "none"]
  /\ todo' = [todo EXCEPT ![p] = {}]
  /\ flagged' = [flagged EXCEPT ![p] = {}]
  /\ errs' = [errs EXCEPT ![p] = {}]
  /\ ctxErr' = [ctxErr EXCEPT ![p] = "nil"]
  /\ UNCHANGED <<mgrVars, dom, call, renewIn, pre>>
  /\ UNCHANGED <<renewed, runErr, schedVars>>
  /\ UNCHANGED <<checks, auxVars>>

\* RenewExpiredCertificates: every flagged domain was visited
RenewExpiredEnd(p) ==
  /\ pc[p] = "batch" /\ op[p] = "RenewExpiredCertificates"
  /\ todo[p] = {}
  /\ result' = IF errs[p] # {} THEN Err("RenewExpiredCertificates", errs[p])
                  ELSE Ok("RenewExpiredCertificates", {})
  /\ pc' = [pc EXCEPT ![p] = "idle"]
  /\ op' = [op EXCEPT ![p] = "none"]
  /\ flagged' = [flagged EXCEPT ![p] = {}]
  /\ errs' = [errs EXCEPT ![p] = {}]
  /\ ctxErr' = [ctxErr EXCEPT ![p] = "nil"]
  /\ UNCHANGED <<mgrVars, dom, call, renewIn, pre, todo>>
  /\ UNCHANGED <<renewed, runErr, schedVars>>
  /\ UNCHANGED <<checks, auxVars>>

\* the batch has a domain to visit or an adapter call in flight
Working(p) == pc[p] \in {"request_acme", "renew_acme"} \/ (pc[p] = "batch" /\ todo[p] # {})

\* the caller of a batch operation cancels the context it passed while the batch works
CtxCancel(p) ==
  /\ op[p] \in {"RenewExpiredCertificates", "ProcessAllDomains"} /\ ctxErr[p] = "nil"
  /\ Working(p)
  /\ ctxErr' = [ctxErr EXCEPT ![p] = "canceled"]
  /\ UNCHANGED <<mgrVars, pc, op, dom, call, renewIn, pre, todo, flagged, errs, result>>
  /\ UNCHANGED <<renewed, runErr, schedVars>>
  /\ UNCHANGED <<checks, auxVars>>

\* ProcessAllDomains: reads the configured domains
ProcessBegin(p) ==
  /\ p \in Clients /\ pc[p] = "idle"
  /\ todo' = [todo EXCEPT ![p] = {Configured[i] : i \in 1..Len(Configured)}]
  /\ errs' = [errs EXCEPT ![p] = {}]
  /\ pc' = [pc EXCEPT ![p] = "batch"]
  /\ op' = [op EXCEPT ![p] = "ProcessAllDomains"]
  /\ UNCHANGED <<mgrVars, dom, call, renewIn, pre, flagged, ctxErr, result>>
  /\ UNCHANGED <<renewed, runErr, schedVars>>
  /\ UNCHANGED <<checks, auxVars>>

\* ProcessAllDomains: ctx.Done() is seen before the next domain
ProcessCancelled(p) ==
  /\ pc[p] = "batch" /\ op[p] = "ProcessAllDomains"
  /\ todo[p] # {} /\ ~CtxLive(ctxErr[p])
  /\ result' = Err(ctxErr[p], {})
  /\ pc' = [pc EXCEPT ![p] = "idle"]
  /\ op' = [op EXCEPT ![p] = "none"]
  /\ todo' = [todo EXCEPT ![p] = {}]
  /\ errs' = [errs EXCEPT ![p] = {}]
  /\ ctxErr' = [ctxErr EXCEPT ![p] = "nil"]
  /\ UNCHANGED <<mgrVars, dom, call, renewIn, pre, flagged>>
  /\ UNCHANGED <<renewed, runErr, schedVars>>
  /\ UNCHANGED <<checks, auxVars>>

\* ProcessAllDomains: every configured domain was visited
ProcessEnd(p) ==
  /\ pc[p] = "batch" /\ op[p] = "ProcessAllDomains"
  /\ todo[p] = {}
  /\ result' = IF errs[p] # {} THEN Err("ProcessAllDomains", errs[p])
                  ELSE Ok("ProcessAllDomains", {})
  /\ pc' = [pc EXCEPT ![p] = "idle"]
  /\ op' = [op EXCEPT ![p] = "none"]
  /\ errs' = [errs EXCEPT ![p] = {}]
  /\ ctxErr' = [ctxErr EXCEPT ![p] = "nil"]
  /\ UNCHANGED <<mgrVars, dom, call, renewIn, pre, todo, flagged>>
  /\ UNCHANGED <<renewed, runErr, schedVars>>
  /\ UNCHANGED <<checks, auxVars>>

\* a day passes
Tick ==
  /\ now < MaxTime
  /\ now' = now + 1
  /\ UNCHANGED <<renewalDays, certs, disk, mu, acmeCalls, procVars>>
  /\ UNCHANGED schedVars
  /\ UNCHANGED <<checks, auxVars>>

\* ------------------------------------------------- Scheduler
NoStats == [totalRuns |-> 0, successfulRuns |-> 0, failedRuns |-> 0, certificatesRenewed |-> 0]

\* NewRenewalQueue: an empty task list
NewRenewalQueue ==
  /\ tasks = << >>
  /\ nextTask = NoTask

\* NewScheduler: not running, a live context, the first ticker, an unheld s.mu
NewScheduler ==
  /\ rlocks = [p \in Procs |-> 0]
  /\ lockWait = {}
  /\ isRunning = FALSE
  /\ smu = "none"
  /\ sctx = "live"
  /\ ticker = 0
  /\ stopped = {}
  /\ tickC = {}
  /\ loopTicker = 0
  /\ wg = 0
  /\ stats = NoStats
  /\ await = FALSE

\* s.mu.Lock() / s.mu.RLock() return when nobody holds the lock exclusively
CanLockSMutant(m) == TRUE

CanLockS(m) == m = "none"

StartRefusedMutant(running) == FALSE

\* Start: "scheduler is already running"
StartRefused(running) == running

\* Stop and Reschedule: "scheduler is not running"
NotRunning(running) == ~running

\* the run context of performRenewalCheck exists: past context.WithTimeout(s.ctx, ...)
HasRunCtx(p) == op[p] = "check" /\ pc[p] \in {"check_begin", "batch", "renew_acme"}

\* Start(): fails when running, else marks running and launches run()
Start(c) ==
  /\ c \in Clients /\ pc[c] = "idle"
  /\ CanLockS(smu)
  /\ IF StartRefused(isRunning)
       THEN /\ result' = Err("Start", {})
            /\ UNCHANGED <<isRunning, wg, pc>>
       ELSE /\ result' = Ok("Start", {})
            /\ isRunning' = TRUE
            /\ wg' = wg + 1
            /\ pc' = [pc EXCEPT ![Loop] = "warmup"]
  /\ UNCHANGED <<mgrVars, op, dom, call, renewIn, pre, todo, flagged, errs, ctxErr, renewed, runErr>>
  /\ UNCHANGED <<smu, sctx, ticker, stopped, tickC, loopTicker, stats, await>>
  /\ UNCHANGED <<checks, auxVars>>

\* Stop() up to s.wg.Wait(): fails when not running, else cancels s.ctx (and with it
\* the context of a check in progress) and stops the ticker, keeping s.mu
StopBegin(c) ==
  /\ c \in Clients /\ pc[c] = "idle"
  /\ CanLockS(smu)
  /\ IF NotRunning(isRunning)
       THEN /\ result' = Err("Stop", {})
            /\ UNCHANGED <<smu, sctx, stopped, pc, op, ctxErr, await>>
       ELSE /\ smu' = c
            /\ sctx' = "canceled"
            /\ ctxErr' = [ctxErr EXCEPT ![Loop] =
                            IF HasRunCtx(Loop) /\ @ = "nil" THEN "canceled" ELSE @]
            /\ stopped' = stopped \cup {ticker}
            /\ pc' = [pc EXCEPT ![c] = "stop_wait"]
            /\ op' = [op EXCEPT ![c] = "Stop"]
            /\ await' = FALSE
            /\ UNCHANGED result
  /\ UNCHANGED <<mgrVars, dom, call, renewIn, pre, todo, flagged, errs, renewed, runErr>>
  /\ UNCHANGED <<isRunning, ticker, tickC, loopTicker, wg, stats>>
  /\ UNCHANGED <<checks, auxVars>>

WaitReturnsMutant(w) == TRUE

\* s.wg.Wait() returns when the counter is zero: run() has returned
WaitReturns(w) == w = 0

\* Stop() from the return of s.wg.Wait(): marks stopped, releases s.mu
StopEnd(c) ==
  /\ pc[c] = "stop_wait"
  /\ WaitReturns(wg)
  /\ isRunning' = FALSE
  /\ smu' = "none"
  /\ result' = Ok("Stop", {})
  /\ pc' = [pc EXCEPT ![c] = "idle"]
  /\ op' = [op EXCEPT ![c] = "none"]
  /\ UNCHANGED <<mgrVars, dom, call, renewIn, pre, todo, flagged, errs, ctxErr, renewed, runErr>>
  /\ UNCHANGED <<sctx, ticker, stopped, tickC, loopTicker, wg, stats, await>>
  /\ UNCHANGED <<checks, auxVars>>

\* Reschedule(): fails when not running, else stops s.ticker and points the field
\* to a new ticker
Reschedule(c) ==
  /\ c \in Clients /\ pc[c] = "idle"
  /\ CanLockS(smu)
  /\ IF NotRunning(isRunning)
       THEN /\ result' = Err("Reschedule", {})
            /\ UNCHANGED <<ticker, stopped, await>>
       ELSE /\ ticker < MaxResched
            /\ result' = Ok("Reschedule", {})
            /\ stopped' = stopped \cup {ticker}
            /\ ticker' = ticker + 1
            /\ await' = TRUE
  /\ UNCHANGED <<mgrVars, pc, op, dom, call, renewIn, pre, todo, flagged, errs, ctxErr, renewed, runErr>>
  /\ UNCHANGED <<isRunning, smu, sctx, tickC, loopTicker, wg, stats>>
  /\ UNCHANGED <<checks, auxVars>>

\* the runtime sends a tick on the channel of the running ticker (dropped when full)
TickerFire ==
  /\ ticker \notin stopped
  /\ tickC' = tickC \cup {ticker}
  /\ UNCHANGED <<mgrVars, procVars>>
  /\ UNCHANGED <<isRunning, smu, sctx, ticker, stopped, loopTicker, wg, stats, await>>
  /\ UNCHANGED <<checks, auxVars>>

\* run(): the warm-up delay elapses before s.ctx is done
LoopWarmupDone ==
  /\ pc[Loop] = "warmup"
  /\ sctx = "live"
  /\ stats.totalRuns < MaxRuns
  /\ pc' = [pc EXCEPT ![Loop] = "check_lock"]
  /\ op' = [op EXCEPT ![Loop] = "warmup_check"]
  /\ UNCHANGED <<mgrVars, dom, call, renewIn, pre, todo, flagged, errs, ctxErr, result, renewed, runErr>>
  /\ UNCHANGED schedVars
  /\ UNCHANGED <<checks, auxVars>>

\* run(): the select receives a tick from the channel it reads
LoopTick ==
  /\ pc[Loop] = "select"
  /\ loopTicker \in tickC
  /\ stats.totalRuns < MaxRuns
  /\ tickC' = tickC \ {loopTicker}
  /\ pc' = [pc EXCEPT ![Loop] = "check_lock"]
  /\ UNCHANGED <<mgrVars, op, dom, call, renewIn, pre, todo, flagged, errs, ctxErr, result, renewed, runErr>>
  /\ UNCHANGED <<isRunning, smu, sctx, ticker, stopped, loopTicker, wg, stats, await>>
  /\ UNCHANGED <<checks, auxVars>>

\* run(): s.ctx.Done() is received, in the warm-up or in the loop; run() returns
LoopCancelled ==
  /\ pc[Loop] \in {"warmup", "select"}
  /\ sctx = "canceled"
  /\ pc' = [pc EXCEPT ![Loop] = "idle"]
  /\ op' = [op EXCEPT ![Loop] = "none"]
  /\ wg' = wg - 1
  /\ UNCHANGED <<mgrVars, dom, call, renewIn, pre, todo, flagged, errs, ctxErr, result, renewed, runErr>>
  /\ UNCHANGED <<isRunning, smu, sctx, ticker, stopped, tickC, loopTicker, stats, await>>
  /\ UNCHANGED <<checks, auxVars>>

\* performRenewalCheck: the first critical section, then context.WithTimeout(s.ctx)
CheckBegin ==
  /\ pc[Loop] = "check_lock"
  /\ CanLockS(smu)
  /\ stats' = [stats EXCEPT !.totalRuns = @ + 1]
  /\ checks' = checks + 1
  /\ ctxErr' = [ctxErr EXCEPT ![Loop] = IF sctx = "canceled" THEN "canceled" ELSE "nil"]
  /\ pc' = [pc EXCEPT ![Loop] = "check_begin"]
  /\ op' = [op EXCEPT ![Loop] = "check"]
  /\ await' = FALSE
  /\ UNCHANGED <<mgrVars, dom, call, renewIn, pre, todo, flagged, errs, result, renewed, runErr>>
  /\ UNCHANGED <<isRunning, smu, sctx, ticker, stopped, tickC, loopTicker, wg>>
  /\ UNCHANGED auxVars

RunOnceCtxMutant(sc) == IF sc = "canceled" THEN "canceled" ELSE "nil"

\* RunOnce: ctx.Err() of context.WithTimeout(context.Background(), timeout) when made
RunOnceCtx(sc) == "nil"

\* RunOnce up to its call of performRenewalWithContext
RunOnceBegin(c) ==
  /\ c \in Clients /\ pc[c] = "idle"
  /\ checks < MaxRuns
  /\ Cardinality({q \in Clients : op[q] = "RunOnce"}) < MaxManual
  /\ checks' = checks + 1
  /\ ctxErr' = [ctxErr EXCEPT ![c] = RunOnceCtx(sctx)]
  /\ pc' = [pc EXCEPT ![c] = "check_begin"]
  /\ op' = [op EXCEPT ![c] = "RunOnce"]
  /\ UNCHANGED <<mgrVars, dom, call, renewIn, pre, todo, flagged, errs, result, renewed, runErr>>
  /\ UNCHANGED <<schedVars, auxVars>>

\* what RunOnce returns for the error e of performRenewalWithContext
RunOnceReturn(e, failed) ==
  IF e = "nil" THEN Ok("RunOnce", {})
  ELSE IF e = "aggregate" THEN Err("RunOnce", failed) ELSE Err(e, {})

\* performRenewalWithContext returns e: to performRenewalCheck in the loop, to the
\* caller of RunOnce otherwise
PerformReturn(p, e) ==
  /\ todo' = [todo EXCEPT ![p] = {}]
  /\ flagged' = [flagged EXCEPT ![p] = {}]
  /\ errs' = [errs EXCEPT ![p] = {}]
  /\ renewed' = [renewed EXCEPT ![p] = 0]
  /\ IF p = Loop
       THEN /\ runErr' = [runErr EXCEPT ![p] = e]
            /\ pc' = [pc EXCEPT ![p] = "check_end"]
            /\ UNCHANGED <<op, ctxErr, result>>
       ELSE /\ result' = RunOnceReturn(e, errs[p])
            /\ pc' = [pc EXCEPT ![p] = "idle"]
            /\ op' = [op EXCEPT ![p] = "none"]
            /\ ctxErr' = [ctxErr EXCEPT ![p] = "nil"]
            /\ UNCHANGED runErr

\* performRenewalWithContext: the first ctx test, then the health snapshot
PerformSnapshot(p) ==
  /\ pc[p] = "check_begin"
  /\ IF ~CtxLive(ctxErr[p])
       THEN PerformReturn(p, ctxErr[p])
       ELSE /\ CanLock(mu)
            /\ LET health == CheckCertificateHealth(certs, renewalDays, now)
               IN  /\ todo' = [todo EXCEPT ![p] = DOMAIN health]
                   /\ flagged' = [flagged EXCEPT ![p] = Flagged(health)]
            /\ errs' = [errs EXCEPT ![p] = {}]
            /\ renewed' = [renewed EXCEPT ![p] = 0]
            /\ pc' = [pc EXCEPT ![p] = "batch"]
            /\ UNCHANGED <<op, ctxErr, result, runErr>>
  /\ UNCHANGED <<mgrVars, dom, call, renewIn, pre, schedVars, checks, auxVars>>

\* performRenewalWithContext: ctx.Done() is seen before the next domain
PerformCancelled(p) ==
  /\ pc[p] = "batch" /\ op[p] \in {"check", "RunOnce"}
  /\ todo[p] # {} /\ ~CtxLive(ctxErr[p])
  /\ PerformReturn(p, ctxErr[p])
  /\ UNCHANGED <<mgrVars, dom, call, renewIn, pre, schedVars, checks, auxVars>>

\* performRenewalWithContext: a domain of the snapshot that is not flagged
PerformSkip(p, d) ==
  /\ pc[p] = "batch" /\ op[p] \in {"check", "RunOnce"}
  /\ d \in todo[p] \ flagged[p] /\ CtxLive(ctxErr[p])
  /\ todo' = [todo EXCEPT ![p] = Remaining(@, d, TRUE)]
  /\ UNCHANGED <<mgrVars, pc, op, dom, call, renewIn, pre, flagged, errs, ctxErr, result, renewed, runErr, schedVars, checks, auxVars>>

\* performRenewalWithContext after its loop: the renewed count goes to the statistics
\* and the aggregate error, or nil, is returned
PerformCounted(p) ==
  /\ pc[p] = "batch" /\ op[p] \in {"check", "RunOnce"}
  /\ todo[p] = {}
  /\ CanLockS(smu)
  /\ stats' = [stats EXCEPT !.certificatesRenewed = @ + renewed[p]]
  /\ PerformReturn(p, IF errs[p] # {} THEN "aggregate" ELSE "nil")
  /\ UNCHANGED <<mgrVars, dom, call, renewIn, pre, checks, auxVars>>
  /\ UNCHANGED <<isRunning, smu, sctx, ticker, stopped, tickC, loopTicker, wg, await>>

CheckSnapshot == PerformSnapshot(Loop)

CheckCancelled == PerformCancelled(Loop)

CheckSkip(d) == PerformSkip(Loop, d)

CheckCounted == PerformCounted(Loop)

RunOnceSnapshot(c) == c \in Clients /\ PerformSnapshot(c)

RunOnceCancelled(c) == c \in Clients /\ PerformCancelled(c)

RunOnceSkip(c, d) == c \in Clients /\ PerformSkip(c, d)

RunOnceCounted(c) == c \in Clients /\ PerformCounted(c)

\* performRenewalCheck: the last critical section; run() goes (back) to its select,
\* which reads s.ticker.C
CheckEnd ==
  /\ pc[Loop] = "check_end"
  /\ CanLockS(smu)
  /\ stats' = IF runErr[Loop] # "nil"
                THEN [stats EXCEPT !.failedRuns = @ + 1]
                ELSE [stats EXCEPT !.successfulRuns = @ + 1]
  /\ runErr' = [runErr EXCEPT ![Loop] = "nil"]
  /\ ctxErr' = [ctxErr EXCEPT ![Loop] = "nil"]
  /\ pc' = [pc EXCEPT ![Loop] = "select"]
  /\ op' = [op EXCEPT ![Loop] = "run"]
  /\ loopTicker' = ticker
  /\ UNCHANGED <<mgrVars, dom, call, renewIn, pre, todo, flagged, errs, result, renewed>>
  /\ UNCHANGED <<isRunning, smu, sctx, ticker, stopped, tickC, wg, await, checks, auxVars>>

\* the per-run timeout of the check in progress expires while the check works
RunTimeout ==
  /\ HasRunCtx(Loop) /\ ctxErr[Loop] = "nil"
  /\ pc[Loop] = "check_begin" \/ Working(Loop)
  /\ ctxErr' = [ctxErr EXCEPT ![Loop] = "deadline"]
  /\ UNCHANGED <<mgrVars, pc, op, dom, call, renewIn, pre, todo, flagged, errs, result, renewed, runErr, schedVars, checks, auxVars>>

\* the timeout of a RunOnce in progress expires while its check works
RunOnceTimeout(c) ==
  /\ c \in Clients /\ op[c] = "RunOnce" /\ ctxErr[c] = "nil"
  /\ pc[c] = "check_begin" \/ Working(c)
  /\ ctxErr' = [ctxErr EXCEPT ![c] = "deadline"]
  /\ UNCHANGED <<mgrVars, pc, op, dom, call, renewIn, pre, todo, flagged, errs, result, renewed, runErr, schedVars, checks, auxVars>>

\* GetStats: a copy of the statistics taken under the read lock
GetStats(c) ==
  /\ c \in Clients /\ pc[c] = "idle"
  /\ CanLockS(smu)
  /\ result' = Ok("GetStats", {})
  /\ UNCHANGED <<mgrVars, pc, op, dom, call, renewIn, pre, todo, flagged, errs, ctxErr, renewed, runErr, schedVars, checks, auxVars>>

\* ------------------------------------------------- the manager under its callers
\* NewCertificateManager: the registry holds what loadExistingCertificates could load
Stored == {NoFile, [crt |-> [serial |-> PreSerial, notAfter |-> 1, wellFormed |-> TRUE],
                    key |-> PreSerial]}

\* no call is in progress and the scheduler is new
NoCalls ==
  /\ mu = "none"
  /\ acmeCalls = 0
  /\ pc = [p \in Procs |-> "idle"]
  /\ op = [p \in Procs |-> "none"]
  /\ dom = [p \in Procs |-> ""]
  /\ call = [p \in Procs |-> 0]
  /\ renewIn = [p \in Procs |-> NoCert]
  /\ pre = [p \in Procs |-> NoRegistry]
  /\ todo = [p \in Procs |-> {}]
  /\ flagged = [p \in Procs |-> {}]
  /\ errs = [p \in Procs |-> {}]
  /\ ctxErr = [p \in Procs |-> "nil"]
  /\ result = NoResult
  /\ renewed = [p \in Procs |-> 0]
  /\ runErr = [p \in Procs |-> "nil"]
  /\ NewScheduler
  /\ NewRenewalQueue
  /\ checks = 0
  /\ answer = NoAnswer

Init ==
  /\ now = 0
  /\ renewalDays \in 1..MaxRenewalDays
  /\ disk \in [Domains -> Stored]
  /\ certs = [d \in Domains |-> LoadCertificate(disk, d).cert]
  /\ NoCalls
  /\ constructed = TRUE
  /\ certFiles = {}
  /\ held = NoHeld
  /\ probe = NoProbe

Next ==
  \/ \E p \in Clients, d \in Domains : RequestBegin(p, d)
  \/ \E p \in Clients : RequestEnd(p)
  \/ \E p \in Clients, d \in Domains : RenewBegin(p, d)
  \/ \E p \in Clients : RenewEnd(p)
  \/ \E p \in Clients : RenewExpiredBegin(p)
  \/ \E p \in Clients : RenewExpiredCancelled(p)
  \/ \E p \in Clients : RenewExpiredEnd(p)
  \/ \E p \in Clients : ProcessBegin(p)
  \/ \E p \in Clients : ProcessCancelled(p)
  \/ \E p \in Clients : ProcessEnd(p)
  \/ \E p \in Clients : CtxCancel(p)
  \/ Tick

Spec == Init /\ [][Next]_vars

\* ------------------------------------------------- the scheduler under its callers
\* the steps of the goroutine of run()
LoopNext ==
  \/ LoopWarmupDone
  \/ LoopTick
  \/ LoopCancelled
  \/ CheckBegin
  \/ CheckSnapshot
  \/ CheckCancelled
  \/ \E d \in Domains : CheckSkip(d)
  \/ \E d \in Domains : RenewBegin(Loop, d)
  \/ RenewEnd(Loop)
  \/ CheckCounted
  \/ CheckEnd

SchedNext ==
  \/ \E c \in Clients : Start(c)
  \/ \E c \in Clients : StopBegin(c)
  \/ \E c \in Clients : StopEnd(c)
  \/ \E c \in Clients : Reschedule(c)
  \/ \E c \in Clients : GetStats(c)
  \/ TickerFire
  \/ RunTimeout
  \/ Tick
  \/ LoopNext

SchedSpec == Init /\ [][SchedNext]_vars

\* ------------------------------------------------- manual runs beside the scheduler
\* the caller that starts and stops the scheduler, and the callers of RunOnce
Operators == {"c1"}
Admins == {"c2"}

\* the steps of a RunOnce call
RunOnceNext ==
  \/ \E c \in Admins : RunOnceBegin(c)
  \/ \E c \in Admins : RunOnceSnapshot(c)
  \/ \E c \in Admins : RunOnceCancelled(c)
  \/ \E c \in Admins, d \in Domains : RunOnceSkip(c, d)
  \/ \E c \in Admins, d \in Domains : RenewBegin(c, d) /\ pc[c] = "batch"
  \/ \E c \in Admins : RenewEnd(c)
  \/ \E c \in Admins : RunOnceCounted(c)
  \/ \E c \in Admins : RunOnceTimeout(c)

ManualNext ==
  \/ \E c \in Operators : Start(c)
  \/ \E c \in Operators : StopBegin(c)
  \/ \E c \in Operators : StopEnd(c)
  \/ RunOnceNext
  \/ TickerFire
  \/ Tick
  \/ LoopNext

ManualSpec == Init /\ [][ManualNext]_vars

\* goroutines that can run do run, the adapter returns, the runtime delivers ticks
SchedFair ==
  /\ SchedSpec
  /\ WF_vars(LoopNext)
  /\ WF_vars(\E c \in Clients : StopEnd(c))
  /\ WF_vars(TickerFire)

\* ------------------------------------------------- the certificate entity by the hour
\* The methods of Certificate on one certificate, with instants counted in hours:
\* probe.expiresAt is c.ExpiresAt, probe.at is time.Now() during the call.
HoursPerDay == 24

Instants == (0 - MaxHours)..MaxHours

\* t.AddDate(0, 0, ds) on a UTC instant
AddDate(t, ds) == t + ds * HoursPerDay

\* t.After(u)
After(t, u) == t > u

NeedsRenewalAtMutant(expiresAt, ds, t) == ~After(AddDate(expiresAt, 0 - ds), t)

\* Certificate.NeedsRenewal(renewalDays) called at instant t
NeedsRenewalAt(expiresAt, ds, t) == After(t, AddDate(expiresAt, 0 - ds))

\* Certificate.IsExpired() called at instant t
IsExpiredAt(expiresAt, t) == After(t, expiresAt)

\* int(x / y) of Go for a float64 quotient with y > 0: the fraction is dropped
Truncate(x, y) == IF x >= 0 THEN x \div y ELSE 0 - ((0 - x) \div y)

\* Certificate.DaysUntilExpiry() called at instant t
DaysUntilExpiry(expiresAt, t) == Truncate(expiresAt - t, HoursPerDay)

CallNeedsRenewal ==
  /\ probe.method = "none"
  /\ probe' = [probe EXCEPT !.method = "NeedsRenewal",
                            !.flag = NeedsRenewalAt(probe.expiresAt, probe.days, probe.at)]
  /\ UNCHANGED <<mgrVars, procVars, schedVars, checks, constructed, certFiles, held, svcVars>>

CallIsExpired ==
  /\ probe.method = "none"
  /\ probe' = [probe EXCEPT !.method = "IsExpired",
                            !.flag = IsExpiredAt(probe.expiresAt, probe.at)]
  /\ UNCHANGED <<mgrVars, procVars, schedVars, checks, constructed, certFiles, held, svcVars>>

CallDaysUntilExpiry ==
  /\ probe.method = "none"
  /\ probe' = [probe EXCEPT !.method = "DaysUntilExpiry",
                            !.value = DaysUntilExpiry(probe.expiresAt, probe.at)]
  /\ UNCHANGED <<mgrVars, procVars, schedVars, checks, constructed, certFiles, held, svcVars>>

\* a certificate, a renewal threshold and an instant; no manager
EntityInit ==
  /\ now = 0
  /\ renewalDays = 1
  /\ disk = [d \in Domains |-> NoFile]
  /\ certs = NoRegistry
  /\ NoCalls
  /\ constructed = FALSE
  /\ certFiles = {}
  /\ held = NoHeld
  /\ probe \in [expiresAt : Instants, days : 0..MaxRenewalDays, at : Instants,
                method : {"none"}, flag : {FALSE}, value : {0}]

EntityNext ==
  \/ CallNeedsRenewal
  \/ CallIsExpired
  \/ CallDaysUntilExpiry

EntitySpec == EntityInit /\ [][EntityNext]_vars

\* ------------------------------------------------- the manager from its construction
GraceDays == 30

CleanupRemovesMutant(cert, t) == IsExpired(cert, t) /\ t - cert.expiresAt >= GraceDays

\* Cleanup: the test that deletes a registry entry
CleanupRemoves(cert, t) == IsExpired(cert, t) /\ t - cert.expiresAt > GraceDays

\* the registry after Cleanup has ranged over it
Cleaned(reg, t) ==
  [d \in Domains |-> IF reg[d] # NoCert /\ CleanupRemoves(reg[d], t) THEN NoCert ELSE reg[d]]

\* Cleanup(): under the exclusive lock, deletes the long-expired entries
Cleanup(p) ==
  /\ p \in Clients /\ pc[p] = "idle"
  /\ CanLock(mu)
  /\ certs' = Cleaned(certs, now)
  /\ result' = Ok("Cleanup", {})
  /\ UNCHANGED <<now, renewalDays, disk, mu, acmeCalls>>
  /\ UNCHANGED <<pc, op, dom, call, renewIn, pre, todo, flagged, errs, ctxErr, renewed, runErr>>
  /\ UNCHANGED <<schedVars, checks, auxVars>>

\* loadExistingCertificates: the domains of the <domain>.crt entries of the directory
Listing(dsk) == {d \in Domains : dsk[d].crt # NoPEM}

StartupRestMutant(found, d, ok) == IF ok THEN found \ {d} ELSE {}

\* the domains the loading loop still has to visit after it visited d
StartupRest(found, d, ok) == found \ {d}

\* the registry after the loading loop got res from LoadCertificate(d)
StartupCommit(reg, d, res) == IF res.ok THEN [reg EXCEPT ![d] = res.cert] ELSE reg

\* loadExistingCertificates: one iteration of the loading loop
LoadExisting(d) ==
  /\ ~constructed
  /\ d \in certFiles
  /\ certs' = StartupCommit(certs, d, LoadCertificate(disk, d))
  /\ certFiles' = StartupRest(certFiles, d, LoadCertificate(disk, d).ok)
  /\ UNCHANGED <<now, renewalDays, disk, mu, acmeCalls, procVars, schedVars, checks>>
  /\ UNCHANGED <<constructed, held, probe, svcVars>>

\* NewCertificateManager returns the manager after the loading loop
ManagerConstructed ==
  /\ ~constructed
  /\ certFiles = {}
  /\ constructed' = TRUE
  /\ UNCHANGED <<mgrVars, procVars, schedVars, checks, certFiles, held, probe, svcVars>>

\* the adapter's RequestCertificate gets bytes that do not parse: it logs a warning,
\* saves and returns the certificate; RequestCertificate commits and returns
RequestEndUnparsed(p) ==
  /\ pc[p] = "request_acme" /\ Back(p) = "idle"
  /\ \E outcome \in AcmeOutcomes \ {"acme_err"}, life \in {Lifetime} :
       LET d == dom[p]
           cert == parseCertificate(Obtained(call[p], now, life, FALSE)).cert
           res == AdapterResult(cert, outcome)
       IN  /\ disk' = saveCertificate(disk, d, cert, outcome)
           /\ certs' = RequestCommit(certs, d, res)
           /\ result' = RequestReturn(d, res)
  /\ op' = [op EXCEPT ![p] = "none"]
  /\ mu' = "none"
  /\ pc' = [pc EXCEPT ![p] = "idle"]
  /\ dom' = [dom EXCEPT ![p] = ""]
  /\ call' = [call EXCEPT ![p] = 0]
  /\ pre' = [pre EXCEPT ![p] = NoRegistry]
  /\ UNCHANGED <<now, renewalDays, acmeCalls, renewIn, todo, flagged, errs, ctxErr>>
  /\ UNCHANGED <<renewed, runErr, schedVars>>
  /\ UNCHANGED <<checks, auxVars>>

\* the same for the adapter's RenewCertificate
RenewEndUnparsed(p) ==
  /\ pc[p] = "renew_acme" /\ Back(p) = "idle"
  /\ \E outcome \in AcmeOutcomes \ {"acme_err"}, life \in {Lifetime} :
       LET d == dom[p]
           cert == parseCertificate(Obtained(call[p], now, life, FALSE)).cert
           res == AdapterResult(cert, outcome)
       IN  /\ disk' = saveCertificate(disk, d, cert, outcome)
           /\ certs' = RenewCommit(certs, d, res)
           /\ result' = RenewReturn(d, res)
  /\ op' = [op EXCEPT ![p] = "none"]
  /\ mu' = "none"
  /\ pc' = [pc EXCEPT ![p] = "idle"]
  /\ dom' = [dom EXCEPT ![p] = ""]
  /\ call' = [call EXCEPT ![p] = 0]
  /\ renewIn' = [renewIn EXCEPT ![p] = NoCert]
  /\ pre' = [pre EXCEPT ![p] = NoRegistry]
  /\ UNCHANGED <<now, renewalDays, acmeCalls, todo, flagged, errs, ctxErr>>
  /\ UNCHANGED <<renewed, runErr, schedVars>>
  /\ UNCHANGED <<checks, auxVars>>

\* where in saveCertificate the process dies: inside the write of the certificate
\* file, or between the write of the certificate file and that of the key file
CrashPoints == {"in_crt_write", "before_key_write"}

\* the files of d when the process dies at a point of saveCertificate(cert)
CrashedSave(dsk, d, cert, point) ==
  IF point = "in_crt_write"
    THEN [dsk EXCEPT ![d].crt = [serial |-> cert.serial, notAfter |-> 0, wellFormed |-> FALSE]]
    ELSE [dsk EXCEPT ![d].crt = PEM(cert)]

\* the process dies while the adapter call of p saves its certificate; it is started
\* again and NewCertificateManager begins to load what the directory holds
Crash(p) ==
  /\ pc[p] \in {"request_acme", "renew_acme"} /\ Back(p) = "idle"
  /\ \E point \in CrashPoints :
       disk' = CrashedSave(disk, dom[p], NewCertificate(call[p], now, Lifetime), point)
  /\ certs' = NoRegistry
  /\ certFiles' = Listing(disk')
  /\ constructed' = FALSE
  /\ mu' = "none"
  /\ pc' = [q \in Procs |-> "idle"]
  /\ op' = [q \in Procs |-> "none"]
  /\ dom' = [q \in Procs |-> ""]
  /\ call' = [q \in Procs |-> 0]
  /\ renewIn' = [q \in Procs |-> NoCert]
  /\ pre' = [q \in Procs |-> NoRegistry]
  /\ result' = NoResult
  /\ UNCHANGED <<now, renewalDays, acmeCalls, todo, flagged, errs, ctxErr, renewed, runErr>>
  /\ UNCHANGED <<schedVars, checks, held, probe, svcVars>>

\* what the storage directory may hold for a domain when the process starts: nothing,
\* a pair that is valid, expired for the grace window or for longer, a certificate
\* without its key, bytes that do not parse
Pair(n) == [crt |-> [serial |-> PreSerial, notAfter |-> n, wellFormed |-> TRUE], key |-> PreSerial]

StoreFiles ==
  {NoFile, Pair(1), Pair(0 - GraceDays), Pair(0 - GraceDays - 1),
   [Pair(1) EXCEPT !.key = 0],
   [Pair(1) EXCEPT !.crt.wellFormed = FALSE]}

\* NewCertificateManager has listed the directory
StoreInit ==
  /\ now = 0
  /\ renewalDays = 1
  /\ disk \in [Domains -> StoreFiles]
  /\ certs = NoRegistry
  /\ NoCalls
  /\ constructed = FALSE
  /\ certFiles = Listing(disk)
  /\ held = NoHeld
  /\ probe = NoProbe

StoreNext ==
  \/ \E d \in Domains : LoadExisting(d)
  \/ ManagerConstructed
  \/ \E p \in Clients, d \in Domains : constructed /\ RequestBegin(p, d)
  \/ \E p \in Clients : RequestEnd(p)
  \/ \E p \in Clients : RequestEndUnparsed(p)
  \/ \E p \in Clients, d \in Domains : constructed /\ RenewBegin(p, d)
  \/ \E p \in Clients : RenewEnd(p)
  \/ \E p \in Clients : RenewEndUnparsed(p)
  \/ \E p \in Clients : constructed /\ Cleanup(p)
  \/ \E p \in Clients : Crash(p)
  \/ Tick

StoreSpec == StoreInit /\ [][StoreNext]_vars

\* ------------------------------------------------- the callers of ListCertificates
\* A certificate object is known by the call that made it (its serial): the map that
\* ListCertificates returns holds, for each domain, the pointer the registry holds.
ListCopy(reg) == [d \in Domains |-> reg[d].serial]

\* ListCertificates(): a new map with the entries of the registry, under the read lock
ListCertificates(c) ==
  /\ c \in Clients /\ pc[c] = "idle"
  /\ CanLock(mu)
  /\ held' = [held EXCEPT ![c] = ListCopy(certs)]
  /\ result' = Ok("ListCertificates", {d \in Domains : certs[d] # NoCert})
  /\ UNCHANGED <<mgrVars, pc, op, dom, call, renewIn, pre, todo, flagged, errs, ctxErr, renewed, runErr>>
  /\ UNCHANGED <<schedVars, checks, constructed, certFiles, probe, svcVars>>

\* the caller deletes a key of the map it got
CallerDeletes(c, d) ==
  /\ c \in Clients /\ held[c][d] # 0
  /\ held' = [held EXCEPT ![c][d] = 0]
  /\ UNCHANGED <<mgrVars, procVars, schedVars, checks, constructed, certFiles, probe, svcVars>>

\* the pointer the caller holds for d is the pointer the registry holds for d
Aliased(reg, ptr, d) == reg[d] # NoCert /\ ptr = reg[d].serial

\* the registry after a caller assigned ExpiresAt through the pointer it holds for d
WrittenThrough(reg, ptr, d, t) ==
  IF Aliased(reg, ptr, d) THEN [reg EXCEPT ![d].expiresAt = t] ELSE reg

\* the caller assigns the zero time to ExpiresAt of a certificate of the map it got
CallerWrites(c, d) ==
  /\ c \in Clients /\ held[c][d] # 0
  /\ certs' = WrittenThrough(certs, held[c][d], d, ZeroTime)
  /\ UNCHANGED <<now, renewalDays, disk, mu, acmeCalls>>
  /\ UNCHANGED <<procVars, schedVars, checks, auxVars>>

ListNext ==
  \/ \E c \in Clients : ListCertificates(c)
  \/ \E c \in Clients, d \in Domains : CallerDeletes(c, d)
  \/ \E c \in Clients, d \in Domains : CallerWrites(c, d)
  \/ \E p \in Clients, d \in Domains : RequestBegin(p, d)
  \/ \E p \in Clients : RequestEnd(p)
  \/ Tick

ListSpec == Init /\ [][ListNext]_vars

\* ------------------------------------------------- the read operations of the manager
\* a caller's GetCertificate(d): the lookup under the read lock
CallGetCertificate(c, d) ==
  /\ c \in Clients /\ pc[c] = "idle"
  /\ CanLock(mu)
  /\ answer' = [NoAnswer EXCEPT !.op = "GetCertificate", !.domain = d,
                                !.ok = GetCertificate(certs, d).ok,
                                !.cert = GetCertificate(certs, d).cert]
  /\ UNCHANGED <<mgrVars, procVars, schedVars, checks>>
  /\ UNCHANGED <<constructed, certFiles, held, probe, rlocks, lockWait, tasks, nextTask>>

\* a caller's CheckCertificateHealth(): the report built under the read lock
CallCheckCertificateHealth(c) ==
  /\ c \in Clients /\ pc[c] = "idle"
  /\ CanLock(mu)
  /\ answer' = [NoAnswer EXCEPT !.op = "CheckCertificateHealth", !.ok = TRUE,
                                !.health = CheckCertificateHealth(certs, renewalDays, now)]
  /\ UNCHANGED <<mgrVars, procVars, schedVars, checks>>
  /\ UNCHANGED <<constructed, certFiles, held, probe, rlocks, lockWait, tasks, nextTask>>

\* readers beside callers that issue and renew
ReadNext ==
  \/ \E c \in Clients, d \in Domains : CallGetCertificate(c, d)
  \/ \E c \in Clients : CallCheckCertificateHealth(c)
  \/ \E c \in Clients : ListCertificates(c)
  \/ \E p \in Clients, d \in Domains : RequestBegin(p, d)
  \/ \E p \in Clients : RequestEnd(p)
  \/ \E p \in Clients, d \in Domains : RenewBegin(p, d)
  \/ \E p \in Clients : RenewEnd(p)
  \/ Tick

ReadSpec == Init /\ [][ReadNext]_vars

\* ------------------------------------------------- RenewalQueue
MaxTasks == 3
MaxPriority == 2

\* the tasks a caller can add: a domain's task (id), its priority and its ScheduledAt
Tasks == [id : 1..MaxTasks, priority : 1..MaxPriority, scheduledAt : 0..MaxTime]

OutranksMutant(task, best) == task.priority >= best.priority

\* GetNextTask: the test that makes a ready task replace the one chosen so far
Outranks(task, best) == task.priority > best.priority

\* GetNextTask: the loop over rq.tasks from index i on, with nextTask and nextIndex
\* as they stand; each iteration has its own task variable (go 1.22)
RECURSIVE Scan(_, _, _, _, _)
Scan(ts, t, i, best, bestIndex) ==
  IF i > Len(ts) THEN [task |-> best, index |-> bestIndex]
  ELSE IF After(t, ts[i].scheduledAt) /\ (best = NoTask \/ Outranks(ts[i], best))
         THEN Scan(ts, t, i + 1, ts[i], i)
         ELSE Scan(ts, t, i + 1, best, bestIndex)

\* append(rq.tasks[:i], rq.tasks[i+1:]...)
Without(ts, i) == SubSeq(ts, 1, i - 1) \o SubSeq(ts, i + 1, Len(ts))

AddTask(task) ==
  /\ Len(tasks) < MaxTasks
  /\ \A i \in 1..Len(tasks) : tasks[i].id # task.id
  /\ tasks' = Append(tasks, task)
  /\ UNCHANGED <<mgrVars, procVars, schedVars, checks>>
  /\ UNCHANGED <<constructed, certFiles, held, probe, answer, rlocks, lockWait, nextTask>>

GetNextTask ==
  /\ IF Len(tasks) = 0
       THEN /\ nextTask' = NoTask
            /\ UNCHANGED tasks
       ELSE LET found == Scan(tasks, now, 1, NoTask, -1)
            IN  /\ nextTask' = found.task
                /\ tasks' = IF found.task # NoTask /\ found.index >= 0
                              THEN Without(tasks, found.index) ELSE tasks
  /\ UNCHANGED <<mgrVars, procVars, schedVars, checks>>
  /\ UNCHANGED <<constructed, certFiles, held, probe, answer, rlocks, lockWait>>

Clear ==
  /\ tasks # << >>
  /\ tasks' = << >>
  /\ UNCHANGED <<mgrVars, procVars, schedVars, checks>>
  /\ UNCHANGED <<constructed, certFiles, held, probe, answer, rlocks, lockWait, nextTask>>

\* a new queue at time 0; no manager call is made
QueueInit ==
  /\ now = 0
  /\ renewalDays = 1
  /\ disk = [d \in Domains |-> NoFile]
  /\ certs = NoRegistry
  /\ NoCalls
  /\ constructed = TRUE
  /\ certFiles = {}
  /\ held = NoHeld
  /\ probe = NoProbe

QueueNext ==
  \/ \E task \in Tasks : AddTask(task)
  \/ GetNextTask
  \/ Clear
  \/ Tick

QueueSpec == QueueInit /\ [][QueueNext]_vars

\* ------------------------------------------------- configuration
MaxNegativeDays == 1
DefaultRenewalDays == 30

\* a configuration file: whether the fields validate() requires are there, and
\* certificates.renewal_days (0 when the key is absent)
YamlConfigs == [required : BOOLEAN, renewal_days : (0 - MaxNegativeDays)..MaxRenewalDays]

\* Config.validate: traefik_api, email, smtp_host, smtp_port and the domains are
\* required; nothing is asked of renewal_days
validate(cfg) == cfg.required

\* Config.setDefaults: an absent renewal_days becomes 30
setDefaults(cfg) ==
  IF cfg.renewal_days = 0 THEN [cfg EXCEPT !.renewal_days = DefaultRenewalDays] ELSE cfg

\* LoadConfig: the configurations it returns
LoadConfig == {setDefaults(cfg) : cfg \in {y \in YamlConfigs : validate(y)}}

\* a manager made with a configuration LoadConfig returned
ConfigInit ==
  /\ now = 0
  /\ renewalDays \in {cfg.renewal_days : cfg \in LoadConfig}
  /\ disk \in [Domains -> Stored]
  /\ certs = [d \in Domains |-> LoadCertificate(disk, d).cert]
  /\ NoCalls
  /\ constructed = TRUE
  /\ certFiles = {}
  /\ held = NoHeld
  /\ probe = NoProbe

\* renewal batches and renewal checks, and callers of RenewCertificate
ConfigNext ==
  \/ \E p \in Clients : RenewExpiredBegin(p)
  \/ \E p \in Clients : RenewExpiredCancelled(p)
  \/ \E p \in Clients : RenewExpiredEnd(p)
  \/ \E p \in Clients, d \in Domains : RenewBegin(p, d)
  \/ \E p \in Clients : RenewEnd(p)
  \/ \E p \in Clients : CtxCancel(p)
  \/ RunOnceNext
  \/ Tick

ConfigSpec == ConfigInit /\ [][ConfigNext]_vars

\* ------------------------------------------------- statistics under ResetStats
\* ResetStats: the counters go back to zero under the exclusive lock (StartTime stays)
ResetStats(c) ==
  /\ c \in Clients /\ pc[c] = "idle"
  /\ checks < MaxRuns
  /\ CanLockS(smu)
  /\ stats' = NoStats
  /\ UNCHANGED <<mgrVars, procVars, checks, auxVars>>
  /\ UNCHANGED <<isRunning, smu, sctx, ticker, stopped, tickC, loopTicker, wg, await>>

\* a manager made on the day the stored certificates become due
StatsInit ==
  /\ now = 1
  /\ renewalDays = MaxRenewalDays
  /\ disk \in [Domains -> Stored]
  /\ certs = [d \in Domains |-> LoadCertificate(disk, d).cert]
  /\ NoCalls
  /\ constructed = TRUE
  /\ certFiles = {}
  /\ held = NoHeld
  /\ probe = NoProbe

\* the scheduler with timer-driven checks, manual runs and a caller that reads and
\* resets the statistics
StatsNext ==
  \/ \E c \in Operators : Start(c)
  \/ \E c \in Operators : StopBegin(c)
  \/ \E c \in Operators : StopEnd(c)
  \/ \E c \in Operators : ResetStats(c)
  \/ \E c \in Operators : GetStats(c)
  \/ RunOnceNext
  \/ TickerFire
  \/ LoopNext

StatsSpec == StatsInit /\ [][StatsNext]_vars

\* ------------------------------------------------- s.mu with readers inside
\* sync.RWMutex: RLock returns when no writer holds the lock or has announced itself
\* in Lock(); a writer that has announced itself gets the lock when the readers that
\* were inside have left
CanRLock == smu = "none" /\ lockWait = {}

NoReaders == \A p \in Procs : rlocks[p] = 0

\* Lock() returns at once: nobody holds s.mu, in either mode, and nobody waits for it
Unheld == CanRLock /\ NoReaders

\* GetStatus: s.mu.RLock()
GetStatusBegin(c) ==
  /\ c \in Clients /\ pc[c] = "idle"
  /\ CanRLock
  /\ rlocks' = [rlocks EXCEPT ![c] = @ + 1]
  /\ pc' = [pc EXCEPT ![c] = "status_locked"]
  /\ op' = [op EXCEPT ![c] = "GetStatus"]
  /\ UNCHANGED <<mgrVars, dom, call, renewIn, pre, todo, flagged, errs, ctxErr, result, renewed, runErr>>
  /\ UNCHANGED <<schedVars, checks, constructed, certFiles, held, probe, answer, lockWait, tasks, nextTask>>

\* GetStatus calls GetUptime: s.mu.RLock() again, by the goroutine that has it shared
GetUptimeBegin(c) ==
  /\ pc[c] = "status_locked"
  /\ CanRLock
  /\ rlocks' = [rlocks EXCEPT ![c] = @ + 1]
  /\ pc' = [pc EXCEPT ![c] = "uptime_locked"]
  /\ UNCHANGED <<mgrVars, op, dom, call, renewIn, pre, todo, flagged, errs, ctxErr, result, renewed, runErr>>
  /\ UNCHANGED <<schedVars, checks, constructed, certFiles, held, probe, answer, lockWait, tasks, nextTask>>

\* GetUptime returns (its deferred RUnlock), then GetStatus returns the status
GetStatusEnd(c) ==
  /\ pc[c] = "uptime_locked"
  /\ rlocks' = [rlocks EXCEPT ![c] = 0]
  /\ answer' = [NoAnswer EXCEPT !.op = "GetStatus", !.ok = TRUE, !.flag = isRunning]
  /\ pc' = [pc EXCEPT ![c] = "idle"]
  /\ op' = [op EXCEPT ![c] = "none"]
  /\ UNCHANGED <<mgrVars, dom, call, renewIn, pre, todo, flagged, errs, ctxErr, result, renewed, runErr>>
  /\ UNCHANGED <<schedVars, checks, constructed, certFiles, held, probe, lockWait, tasks, nextTask>>

\* ResetStats: s.mu.Lock() announces the writer, which waits for the readers to leave
ResetStatsLock(c) ==
  /\ c \in Clients /\ pc[c] = "idle"
  /\ checks < MaxRuns
  /\ CanRLock
  /\ lockWait' = lockWait \cup {c}
  /\ pc' = [pc EXCEPT ![c] = "lock_wait"]
  /\ op' = [op EXCEPT ![c] = "ResetStats"]
  /\ UNCHANGED <<mgrVars, dom, call, renewIn, pre, todo, flagged, errs, ctxErr, result, renewed, runErr>>
  /\ UNCHANGED <<schedVars, checks, constructed, certFiles, held, probe, answer, rlocks, tasks, nextTask>>

\* ResetStats from the return of s.mu.Lock(): the counters go back to zero
ResetStatsEnd(c) ==
  /\ pc[c] = "lock_wait" /\ c \in lockWait
  /\ NoReaders
  /\ stats' = NoStats
  /\ lockWait' = lockWait \ {c}
  /\ pc' = [pc EXCEPT ![c] = "idle"]
  /\ op' = [op EXCEPT ![c] = "none"]
  /\ UNCHANGED <<mgrVars, dom, call, renewIn, pre, todo, flagged, errs, ctxErr, result, renewed, runErr>>
  /\ UNCHANGED <<isRunning, smu, sctx, ticker, stopped, tickC, loopTicker, wg, await>>
  /\ UNCHANGED <<checks, constructed, certFiles, held, probe, answer, rlocks, tasks, nextTask>>

\* callers of GetStatus and ResetStats beside a started scheduler; the critical
\* sections of Start and of the check are entered when Lock() returns at once
StatusNext ==
  \/ \E c \in Clients : GetStatusBegin(c)
  \/ \E c \in Clients : GetUptimeBegin(c)
  \/ \E c \in Clients : GetStatusEnd(c)
  \/ \E c \in Clients : ResetStatsLock(c)
  \/ \E c \in Clients : ResetStatsEnd(c)
  \/ \E c \in Clients : Unheld /\ Start(c)
  \/ LoopWarmupDone
  \/ LoopTick
  \/ Unheld /\ CheckBegin
  \/ CheckSnapshot
  \/ \E d \in Domains : CheckSkip(d)
  \/ \E d \in Domains : RenewBegin(Loop, d)
  \/ RenewEnd(Loop)
  \/ Unheld /\ CheckCounted
  \/ Unheld /\ CheckEnd
  \/ TickerFire

StatusSpec == StatsInit /\ [][StatusNext]_vars

\* goroutines that can run do run, the adapter returns, the runtime delivers ticks
StatusFair ==
  /\ StatusSpec
  /\ \A c \in Clients : WF_vars(GetUptimeBegin(c))
  /\ \A c \in Clients : WF_vars(GetStatusEnd(c))
  /\ \A c \in Clients : WF_vars(ResetStatsEnd(c))
  /\ WF_vars(RenewEnd(Loop))
  /\ WF_vars(TickerFire)

\* ------------------------------------------------- RenewalChecker and RenewalService
ThresholdDays == 30

\* file paths in the storage directory: the domain the name starts with and the
\* suffixes appended to it
CertPath(d) == [name |-> d, ext |-> <<"crt">>]
KeyPath(d) == [name |-> d, ext |-> <<"key">>]

\* NeedsRenewal: keyPath := certPath + ".key"
KeyPathOf(certPath) == [certPath EXCEPT !.ext = Append(@, "key")]

\* the files saveCertificate has put in the directory
Files(dsk) ==
  {CertPath(d) : d \in {x \in Domains : dsk[x].crt # NoPEM}}
    \cup {KeyPath(d) : d \in {x \in Domains : dsk[x].key # 0}}

\* os.Stat(path) finds the file
Stat(dsk, path) == path \in Files(dsk)

\* the key bytes at a path (0: no such file)
ReadKey(dsk, path) == IF path \in Files(dsk) /\ path.ext = <<"key">> THEN dsk[path.name].key ELSE 0

\* tls.LoadX509KeyPair and the parse of the leaf: the certificate parses and the key
\* is the key of the certificate
LoadX509KeyPair(dsk, certPath, keyPath) ==
  /\ dsk[certPath.name].crt.wellFormed
  /\ ReadKey(dsk, keyPath) = dsk[certPath.name].crt.serial

\* RenewalChecker.NeedsRenewal(certPath)
NeedsRenewalPath(dsk, certPath, t) ==
  IF ~Stat(dsk, certPath) THEN FALSE
  ELSE IF ~Stat(dsk, KeyPathOf(certPath)) THEN FALSE
  ELSE IF ~LoadX509KeyPair(dsk, certPath, KeyPathOf(certPath)) THEN FALSE
  ELSE dsk[certPath.name].crt.notAfter - t < ThresholdDays

NeedsRenewalByDomain(dsk, d, t) == NeedsRenewalPath(dsk, CertPath(d), t)

\* CheckAllCertificates: the .crt files of the directory that NeedsRenewal selects,
\* by the domain extractDomainFromPath gives
CheckAllCertificates(dsk, t) ==
  {d \in Domains : Stat(dsk, CertPath(d)) /\ NeedsRenewalPath(dsk, CertPath(d), t)}

\* a caller asks the checker about a domain
CallNeedsRenewalByDomain(c, d) ==
  /\ c \in Clients /\ pc[c] = "idle"
  /\ answer' = [NoAnswer EXCEPT !.op = "NeedsRenewalByDomain", !.domain = d,
                                !.flag = NeedsRenewalByDomain(disk, d, now)]
  /\ UNCHANGED <<mgrVars, procVars, schedVars, checks>>
  /\ UNCHANGED <<constructed, certFiles, held, probe, rlocks, lockWait, tasks, nextTask>>

\* ProcessRenewals: returns at once when no certificate is selected, else renews the
\* selected domains one after the other
ProcessRenewals(c) ==
  /\ c \in Clients /\ pc[c] = "idle"
  /\ LET selected == CheckAllCertificates(disk, now)
     IN  IF selected = {}
           THEN /\ result' = Ok("ProcessRenewals", {})
                /\ UNCHANGED <<pc, op, todo, flagged, errs>>
           ELSE /\ todo' = [todo EXCEPT ![c] = selected]
                /\ flagged' = [flagged EXCEPT ![c] = selected]
                /\ errs' = [errs EXCEPT ![c] = {}]
                /\ pc' = [pc EXCEPT ![c] = "batch"]
                /\ op' = [op EXCEPT ![c] = "ProcessRenewals"]
                /\ UNCHANGED result
  /\ UNCHANGED <<mgrVars, dom, call, renewIn, pre, ctxErr, renewed, runErr>>
  /\ UNCHANGED <<schedVars, checks, auxVars>>

\* the checker and the service beside callers that issue and renew
CheckerNext ==
  \/ \E c \in Clients, d \in Domains : CallNeedsRenewalByDomain(c, d)
  \/ \E c \in Clients : ProcessRenewals(c)
  \/ \E p \in Clients, d \in Domains : RequestBegin(p, d)
  \/ \E p \in Clients : RequestEnd(p)
  \/ \E p \in Clients, d \in Domains : RenewBegin(p, d)
  \/ \E p \in Clients : RenewEnd(p)
  \/ Tick

CheckerSpec == Init /\ [][CheckerNext]_vars

\* ------------------------------------------------- claims about the manager
\* a RenewCertificate call of p, direct or made by a batch, returns an error
RenewFails(p) ==
  /\ RenewEnd(p)
  /\ IF op[p] = "RenewCertificate" THEN result'.kind = "err" ELSE dom[p] \in errs'[p]

\* C1: when RenewCertificate(D) fails because the adapter's RenewCertificate returns
\* an error, and D had a registry entry when the call began, GetCertificate(D)
\* right after the call returns that entry.
C1_RenewFailureKeepsCertificate ==
  [][\A p \in Procs :
       (RenewFails(p) /\ pre[p][dom[p]] # NoCert)
         => GetCertificate(certs', dom[p]) = [ok |-> TRUE, cert |-> pre[p][dom[p]]]]_vars

\* a direct RenewCertificate(d) just failed for a certificate that is due but not expired
C1_Witness ==
  \E d \in Domains :
    /\ result = Err("RenewCertificate", {d})
    /\ certs[d] # NoCert
    /\ NeedsRenewal(certs[d], renewalDays, now) /\ ~IsExpired(certs[d], now)

\* C2: RequestCertificate(d) for a domain whose registry certificate is neither
\* expired nor due for renewal returns success without calling the adapter and
\* without changing the registry (or the store, or the lock).
C2_RequestShortCircuit ==
  [][\A p \in Clients, d \in Domains :
       (/\ RequestBegin(p, d)
        /\ certs[d] # NoCert
        /\ ~IsExpired(certs[d], now)
        /\ ~NeedsRenewal(certs[d], renewalDays, now))
         => /\ IF pc[p] = "idle" THEN result' = Ok("RequestCertificate", {d})
                                ELSE d \notin errs'[p]
            /\ acmeCalls' = acmeCalls
            /\ certs' = certs /\ disk' = disk /\ mu' = mu
            /\ pc'[p] = pc[p]]_vars

\* a RequestCertificate(d) returned success although the adapter was never called
C2_Witness ==
  \E d \in Domains :
    /\ result = Ok("RequestCertificate", {d})
    /\ acmeCalls = 0
    /\ certs[d] # NoCert

\* C3: when the adapter's RequestCertificate fails, the registry is what it was when
\* RequestCertificate(domain) was called and the error names the domain.
C3_RequestFailureKeepsRegistry ==
  [][\A p \in Clients :
       (/\ RequestEnd(p)
        /\ IF op[p] = "RequestCertificate" THEN result'.kind = "err"
                                           ELSE dom[p] \in errs'[p])
         => /\ certs' = pre[p]
            /\ op[p] = "RequestCertificate" => dom[p] \in result'.domains]_vars

\* a RequestCertificate(d) just failed in the adapter
C3_Witness ==
  \E d \in Domains : result = Err("RequestCertificate", {d}) /\ acmeCalls > 0

\* C4: RenewCertificate calls are serialized: two calls are never both between
\* reading the entry and committing; while a call is in flight the registry entry
\* is the certificate it read and handed to the adapter (no other commit slipped
\* in between), and a successful call leaves its own result as the entry.
C4_RenewSerialized ==
  /\ [](\A p, q \in Procs :
          (pc[p] = "renew_acme" /\ pc[q] = "renew_acme") => p = q)
  /\ [](\A p \in Procs :
          pc[p] = "renew_acme" => certs[dom[p]] = renewIn[p])
  /\ [][\A p \in Procs :
          (RenewEnd(p) /\ ~RenewFails(p))
            => certs'[dom[p]].serial = PreSerial + call[p]]_vars

\* a second RenewCertificate(d) is in flight on the result of a first one
C4_Witness ==
  \E p \in Procs, d \in Domains :
    /\ pc[p] = "renew_acme" /\ dom[p] = d
    /\ result = Ok("RenewCertificate", {d})
    /\ renewIn[p].serial = PreSerial + 1
    /\ call[p] = 2

\* C5: a renewal batch invokes the adapter's RenewCertificate for a domain only if
\* the registry certificate of that domain needs renewal at that moment (stated for
\* runs in which no call has returned yet, so that only batches have renewed).
C5_RenewOnlyIfStillNeeded ==
  \A p \in Procs :
    (result = NoResult /\ pc[p] = "renew_acme" /\ op[p] = "RenewExpiredCertificates")
      => NeedsRenewal(certs[dom[p]], renewalDays, now)

\* C6: while a call into the ACME adapter is in flight the registry lock is free.
C6_NoLockAcrossAdapterCall ==
  \A p \in Procs : pc[p] \in {"request_acme", "renew_acme"} => mu = "none"

\* C7: a Stop() that found the scheduler running eventually returns, also when a
\* renewal check is in flight at the moment of the call.
C7_StopReturns ==
  \A c \in Clients : (pc[c] = "stop_wait") ~> (pc[c] = "idle")

\* C8: Start() fails exactly when the scheduler is running and otherwise makes it
\* running; Stop() fails exactly when it is stopped and otherwise ends with it
\* stopped; a failing Start() or Stop() changes neither the state nor the loop.
C8_TwoStateMachine ==
  [][\A c \in Clients :
       /\ Start(c) =>
            IF isRunning
              THEN /\ result' = Err("Start", {})
                   /\ UNCHANGED <<isRunning, sctx, ticker, stopped, wg, stats>>
                   /\ pc'[Loop] = pc[Loop]
              ELSE /\ result' = Ok("Start", {})
                   /\ isRunning'
       /\ StopBegin(c) =>
            IF ~isRunning
              THEN /\ result' = Err("Stop", {})
                   /\ UNCHANGED <<isRunning, sctx, ticker, stopped, wg, stats>>
                   /\ pc' = pc
              ELSE /\ pc'[c] = "stop_wait"
                   /\ UNCHANGED <<result, isRunning>>
       /\ StopEnd(c) => /\ isRunning /\ ~isRunning'
                        /\ result' = Ok("Stop", {})]_vars

\* Start() was refused on a running scheduler whose loop is past its warm-up
C8_Witness ==
  /\ result = Err("Start", {})
  /\ isRunning
  /\ pc[Loop] = "select"
  /\ stats.totalRuns > 0

\* C9: while the scheduler is running and no Stop() is in progress, the loop
\* launched by Start() is alive (in its warm-up, in its select or in a check),
\* also for a Start() that follows a Stop().
C9_LoopAliveWhileRunning ==
  (isRunning /\ \A c \in Clients : pc[c] # "stop_wait") => pc[Loop] # "idle"

\* C10: after every successful Reschedule() on a scheduler that was never stopped
\* the loop performs another renewal check, unless Stop() is called first (or the
\* bound on runs or adapter calls is reached).
C10_CheckAfterReschedule ==
  (await /\ sctx = "live") ~> (~await \/ stats.totalRuns = MaxRuns \/ acmeCalls = MaxCalls)

\* C20: CheckCertificateHealth has one entry per registry entry, with
\* isExpired = (now > expiresAt), needsRenewal = (now > expiresAt - renewalDays) and
\* status expired if isExpired, else needs_renewal if needsRenewal, else valid.
C20_HealthReport ==
  LET health == CheckCertificateHealth(certs, renewalDays, now)
  IN  /\ DOMAIN health = {d \in Domains : certs[d] # NoCert}
      /\ \A d \in DOMAIN health :
           /\ health[d].isExpired = (now > certs[d].expiresAt)
           /\ health[d].needsRenewal = (now > certs[d].expiresAt - renewalDays)
           /\ health[d].isExpired => health[d].status = "expired"
           /\ (~health[d].isExpired /\ health[d].needsRenewal)
                => health[d].status = "needs_renewal"
           /\ (~health[d].isExpired /\ ~health[d].needsRenewal)
                => health[d].status = "valid"

\* a certificate both expired and past the renewal threshold, one on its last day and
\* a valid one have been reported
C20_Witness ==
  LET health == CheckCertificateHealth(certs, renewalDays, now)
  IN  \E d, e \in DOMAIN health :
        /\ now > certs[d].expiresAt /\ health[d].needsRenewal
        /\ health[d].status = "expired"
        /\ health[e].status = "valid"

\* C17: ProcessAllDomains visits every configured domain; a domain leaves the batch
\* only by its own RequestCertificate call (or by cancellation), whether or not an
\* earlier one failed; exactly the failed domains are collected; at the end every
\* domain that did not fail is in the registry and the result is the aggregate error
\* of the failed domains, or nil when none failed.
C17_ProcessAllDomainsAggregates ==
  [][\A p \in Clients :
       /\ ProcessBegin(p) => todo'[p] = Domains
       /\ (op[p] = "ProcessAllDomains" /\ ctxErr[p] = "nil") =>
            /\ \A d \in todo[p] \ todo'[p] :
                 \/ pc[p] = "request_acme" /\ dom[p] = d
                 \/ pc[p] = "batch" /\ RequestSkips(certs, d, renewalDays, now)
            /\ (pc[p] = "request_acme" /\ pc'[p] # pc[p]) =>
                 /\ pc'[p] = "batch"
                 /\ todo'[p] = todo[p] \ {dom[p]}
                 /\ (dom[p] \in errs'[p]) = (certs'[dom[p]] = certs[dom[p]])
                 /\ errs'[p] \ {dom[p]} = errs[p]
            /\ ProcessEnd(p) =>
                 /\ todo[p] = {}
                 /\ \A d \in Domains \ errs[p] : certs[d] # NoCert
                 /\ result' = IF errs[p] = {} THEN Ok("ProcessAllDomains", {})
                              ELSE Err("ProcessAllDomains", errs[p])]_vars

\* the request of the first domain failed, the second domain was requested after it
\* and is in the registry, and the aggregate error names the first domain only
C17_Witness ==
  /\ result = Err("ProcessAllDomains", {Configured[1]})
  /\ certs[Configured[1]] = NoCert
  /\ certs[Configured[2]] = NewCertificate(2, now, Lifetime)

\* C18: a batch whose context is cancelled starts no adapter call and, when it
\* returns, returns the cancellation error.
C18_CancelledBatchReturnsCancellation ==
  [][\A p \in Clients :
       (pc[p] = "batch" /\ ctxErr[p] = "canceled") =>
         /\ pc'[p] \notin {"request_acme", "renew_acme"}
         /\ pc'[p] = "idle" => result' = Err("canceled", {})]_vars

\* C19: RenewExpiredCertificates takes as its work list exactly the registry domains
\* that need renewal at the snapshot; absent cancellation a domain leaves the list
\* only by its own RenewCertificate call, also after another one failed; the result
\* is the aggregate of the failed domains, or nil.
C19_RenewExpiredRenewsFlagged ==
  [][\A p \in Clients :
       /\ RenewExpiredBegin(p) =>
            todo'[p] = {d \in Domains : /\ certs[d] # NoCert
                                        /\ NeedsRenewal(certs[d], renewalDays, now)}
       /\ (op[p] = "RenewExpiredCertificates" /\ ctxErr[p] = "nil") =>
            /\ \A d \in Domains : (pc'[p] = "renew_acme" /\ dom'[p] = d) => d \in todo[p]
            /\ \A d \in todo[p] \ todo'[p] :
                 \/ pc[p] = "renew_acme" /\ dom[p] = d
                 \/ pc[p] = "batch" /\ ~RenewLookup(certs, disk, d).ok /\ d \in errs'[p]
            /\ (pc[p] = "renew_acme" /\ pc'[p] # pc[p]) =>
                 /\ pc'[p] = "batch"
                 /\ todo'[p] = todo[p] \ {dom[p]}
                 /\ (dom[p] \in errs'[p]) = (certs'[dom[p]] = certs[dom[p]])
            /\ RenewExpiredEnd(p) =>
                 /\ todo[p] = {}
                 /\ result' = IF errs[p] = {} THEN Ok("RenewExpiredCertificates", {})
                              ELSE Err("RenewExpiredCertificates", errs[p])]_vars

\* one flagged domain failed, the other was renewed in the same batch
C19_Witness ==
  \E d, e \in Domains :
    /\ d # e
    /\ result = Err("RenewExpiredCertificates", {d})
    /\ certs[d].serial = PreSerial
    /\ certs[e].serial > PreSerial
    /\ acmeCalls = 2

\* ------------------------------------------------- claims about renewal checks
\* a step of the RunOnce call of c
RunOnceStep(c) ==
  \/ RunOnceBegin(c)
  \/ op[c] = "RunOnce" /\ <<pc[c], todo[c], ctxErr[c]>>' # <<pc[c], todo[c], ctxErr[c]>>

\* C11: a RunOnce call performs one renewal check, in either scheduler state; none
\* of its steps changes the Running/Stopped state, the scheduler context, the ticker
\* or the position of the background loop; it returns the result of its own check:
\* nil, the aggregate of the renewals that failed, or its own timeout.
C11_RunOnceIndependent ==
  [][\A c \in Clients :
       /\ RunOnceStep(c) =>
            /\ UNCHANGED <<isRunning, sctx, ticker, stopped, tickC, loopTicker, wg>>
            /\ pc'[Loop] = pc[Loop]
       /\ RunOnceBegin(c) => checks' = checks + 1
       /\ op[c] = "RunOnce" => checks' >= checks
       /\ (op[c] = "RunOnce" /\ pc'[c] = "idle") =>
            IF pc[c] = "batch" /\ todo[c] = {}
              THEN result' = IF errs[c] = {} THEN Ok("RunOnce", {})
                             ELSE Err("RunOnce", errs[c])
              ELSE result' = Err("deadline", {})]_vars

\* RunOnce renewed a certificate and returned nil on a scheduler that was started and
\* stopped again and whose loop never ran a check
C11_Witness ==
  /\ ~isRunning /\ sctx = "canceled"
  /\ result = Ok("RunOnce", {})
  /\ stats.totalRuns = 0
  /\ stats.certificatesRenewed = 1

\* no renewal check is in progress, in the loop or in a RunOnce call
NoCheckInProgress ==
  /\ pc[Loop] \in {"idle", "warmup", "select"}
  /\ \A c \in Clients : op[c] # "RunOnce"

\* C12: whenever no check is in progress, totalRuns = successfulRuns + failedRuns
\* and both equal the number of renewal checks performed, timer-driven or RunOnce.
C12_StatsCountEveryCheck ==
  NoCheckInProgress =>
    /\ stats.totalRuns = stats.successfulRuns + stats.failedRuns
    /\ stats.totalRuns = checks

\* C13: within a scheduled check whose context is live, a flagged domain leaves the
\* work list only by its own RenewCertificate call, also after another renewal
\* failed; the return of a renewal, failed or not, changes no other domain's registry
\* entry; the check ends only with every domain visited, and reports the aggregate
\* error, recorded in failedRuns, when a renewal failed.
C13_FailureDoesNotBlockOthers ==
  [][/\ (op[Loop] = "check" /\ ctxErr[Loop] = "nil") =>
          /\ \A d \in (todo[Loop] \cap flagged[Loop]) \ todo'[Loop] :
               \/ pc[Loop] = "renew_acme" /\ dom[Loop] = d
               \/ pc[Loop] = "batch" /\ ~RenewLookup(certs, disk, d).ok /\ d \in errs'[Loop]
          /\ (pc[Loop] = "renew_acme" /\ pc'[Loop] # pc[Loop]) =>
               /\ pc'[Loop] = "batch"
               /\ todo'[Loop] = todo[Loop] \ {dom[Loop]}
               /\ flagged'[Loop] = flagged[Loop]
               /\ \A e \in Domains \ {dom[Loop]} : certs'[e] = certs[e]
               /\ (dom[Loop] \in errs'[Loop]) = (certs'[dom[Loop]] = certs[dom[Loop]])
          /\ CheckCounted =>
               /\ todo[Loop] = {}
               /\ runErr'[Loop] = IF errs[Loop] # {} THEN "aggregate" ELSE "nil"
     /\ (CheckEnd /\ runErr[Loop] = "aggregate") =>
          /\ stats'.failedRuns = stats.failedRuns + 1
          /\ stats'.successfulRuns = stats.successfulRuns]_vars

\* a scheduled check in which one flagged domain failed and the other was renewed
\* has been recorded as failed
C13_Witness ==
  /\ stats.totalRuns = 1
  /\ stats.failedRuns = 1
  /\ stats.certificatesRenewed = 1
  /\ acmeCalls = 2
  /\ \E d, e \in Domains : certs[d].serial = PreSerial /\ certs[e].serial > PreSerial

\* C14: a scheduled check whose per-run timeout expired while it was working is
\* recorded as failed: it ends with an error.
C14_TimeoutRecordedFailed ==
  (pc[Loop] = "check_end" /\ ctxErr[Loop] = "deadline") => runErr[Loop] # "nil"

\* C15: once a scheduled check has observed the cancellation of Stop(), failedRuns
\* is never incremented.
C15_CancelledRunNotCounted ==
  [][runErr[Loop] = "canceled" => stats'.failedRuns = stats.failedRuns]_vars

\* a scheduled check returned the cancellation error while Stop() waits for the loop
C15_Witness ==
  /\ pc[Loop] = "check_end"
  /\ runErr[Loop] = "canceled"
  /\ \E c \in Clients : pc[c] = "stop_wait"
  /\ stats.totalRuns = 1
  /\ stats.certificatesRenewed = 0

\* C16: the scheduler lock is held only inside critical sections that do not wait:
\* between them it is free, so GetStats can take it.
C16_StatsAlwaysQueryable ==
  CanLockS(smu)

C22_DaysUntilExpiryIsFloor ==
  probe.method = "DaysUntilExpiry" =>
    /\ probe.value * HoursPerDay <= probe.expiresAt - probe.at
    /\ probe.expiresAt - probe.at < (probe.value + 1) * HoursPerDay

\* ------------------------------------------------- claims about the registry and the store
\* C23: Cleanup() removes from the registry exactly the entries expired for more than
\* the 30-day grace window, leaves every other entry as it is and does not touch
\* the store.
C23_CleanupRemovesLongExpired ==
  [][\A p \in Clients :
       Cleanup(p) =>
         /\ \A d \in Domains :
              certs'[d] = IF certs[d] # NoCert /\ now - certs[d].expiresAt > GraceDays
                            THEN NoCert ELSE certs[d]
         /\ disk' = disk]_vars

\* Cleanup() removed an entry expired for more than the grace window, whose files are
\* still in the store, and kept an entry expired for less
C23_Witness ==
  /\ result = Ok("Cleanup", {})
  /\ \E d, e \in Domains :
       /\ certs[d] = NoCert
       /\ LoadCertificate(disk, d).ok
       /\ now - LoadCertificate(disk, d).cert.expiresAt > GraceDays
       /\ certs[e] # NoCert
       /\ IsExpired(certs[e], now)
       /\ now - certs[e].expiresAt <= GraceDays

\* C26: RenewCertificate(D) for a domain without a registry entry loads the
\* certificate from the store and hands that certificate to the adapter's
\* RenewCertificate; when the store has no loadable certificate for D it returns a
\* not-found error naming D without calling the adapter.
C26_LazyRecovery ==
  [][\A p \in Clients, d \in Domains :
       (RenewBegin(p, d) /\ pc[p] = "idle" /\ certs[d] = NoCert) =>
         IF LoadCertificate(disk, d).ok
           THEN /\ pc'[p] = "renew_acme" /\ dom'[p] = d
                /\ renewIn'[p] = LoadCertificate(disk, d).cert
                /\ acmeCalls' = acmeCalls + 1
           ELSE /\ result' = Err("NotFound", {d})
                /\ pc'[p] = "idle"
                /\ acmeCalls' = acmeCalls
                /\ certs' = certs]_vars

\* a renewal is in flight on a certificate loaded from the store for a domain that
\* had no registry entry when RenewCertificate was called
C26_Witness ==
  \E p \in Clients :
    /\ pc[p] = "renew_acme"
    /\ pre[p][dom[p]] = NoCert
    /\ renewIn[p] = LoadCertificate(disk, dom[p]).cert
    /\ renewIn[p] # NoCert

\* C27: every registry entry has expiresAt equal to the notAfter that parsing its own
\* certificate bytes yields; no entry is stored whose bytes did not parse.
C27_ExpiresAtFromParse ==
  \A d \in Domains :
    certs[d] # NoCert =>
      /\ parseCertificate(certs[d]).ok
      /\ certs[d].expiresAt = certs[d].notAfter

\* C29: a crash during the save of a certificate of D leaves files from which
\* LoadCertificate(D) loads nothing, the complete previous pair or the complete new
\* pair.
C29_SaveIsCrashAtomic ==
  [][\A p \in Clients :
       Crash(p) =>
         LET d == dom[p]
             cert == NewCertificate(call[p], now, Lifetime)
         IN  LoadCertificate(disk', d).ok =>
               \/ disk'[d] = disk[d]
               \/ disk'[d] = [crt |-> PEM(cert), key |-> cert.serial]]_vars

\* C30: the loading loop of the construction visits every domain found in the
\* directory: an iteration changes the entry of its own domain only, to the loaded
\* certificate when the load succeeds and not at all when it fails, and goes on with
\* the other domains either way; when the manager is returned every domain whose
\* files load is in the registry and no other domain is.
C30_StartupLoadsEachDomain ==
  [][/\ \A d \in Domains :
          LoadExisting(d) =>
            /\ certs'[d] = IF LoadCertificate(disk, d).ok
                             THEN LoadCertificate(disk, d).cert ELSE certs[d]
            /\ \A e \in Domains \ {d} : certs'[e] = certs[e]
            /\ certFiles' = certFiles \ {d}
     /\ ManagerConstructed =>
          \A d \in Domains : certs[d] = LoadCertificate(disk, d).cert]_vars

\* the manager was returned with one domain loaded although the other domain's
\* certificate file could not be loaded (no key, or bytes that do not parse)
C30_Witness ==
  /\ constructed /\ result = NoResult /\ acmeCalls = 0
  /\ \E d, e \in Domains :
       /\ disk[d].crt # NoPEM /\ ~LoadCertificate(disk, d).ok /\ certs[d] = NoCert
       /\ certs[e] # NoCert /\ certs[e] = LoadCertificate(disk, e).cert

\* C25: RenewCertificate(D) hands the adapter the certificate the registry holds for
\* D; while the adapter call is in flight the caller holds the registry lock, so no
\* reader runs, and the entry of D changes in one step only, the commit; a successful
\* call leaves the adapter's new certificate as the entry, which GetCertificate(D)
\* returns, and changes no other entry.
C25_RenewReplacesAtomically ==
  /\ [](\A p \in Procs : pc[p] = "renew_acme" => mu = p /\ certs[dom[p]] # NoCert)
  /\ [][\A p \in Procs :
          /\ (pc[p] # "renew_acme" /\ pc'[p] = "renew_acme") =>
               /\ renewIn'[p] = certs'[dom'[p]]
               /\ certs[dom'[p]] # NoCert => renewIn'[p] = certs[dom'[p]]
          /\ (pc[p] = "renew_acme" /\ pc'[p] = "renew_acme") => certs' = certs
          /\ (RenewEnd(p) /\ ~RenewFails(p)) =>
               /\ certs'[dom[p]] = NewCertificate(call[p], now, Lifetime)
               /\ GetCertificate(certs', dom[p]) =
                    [ok |-> TRUE, cert |-> NewCertificate(call[p], now, Lifetime)]
               /\ \A e \in Domains \ {dom[p]} : certs'[e] = certs[e]]_vars

\* a direct RenewCertificate(d) succeeded: the registry and the store hold the
\* certificate of the first adapter call in place of the one loaded at startup
C25_Witness ==
  \E d \in Domains :
    /\ result = Ok("RenewCertificate", {d})
    /\ acmeCalls = 1
    /\ certs[d].serial = PreSerial + 1
    /\ disk[d] = [crt |-> PEM(certs[d]), key |-> certs[d].serial]

\* C28: a certificate that was not saved completely (a write of its certificate file
\* or of its key file failed) never becomes the registry entry: the call that
\* obtained it leaves the registry as it is and fails, naming the domain.
C28_FailedSaveKeepsRegistry ==
  [][\A p \in Procs :
       (pc[p] \in {"request_acme", "renew_acme"} /\ pc'[p] # pc[p]) =>
         LET d == dom[p]
             cert == NewCertificate(call[p], now, Lifetime)
         IN  disk'[d] # [crt |-> PEM(cert), key |-> cert.serial] =>
               /\ certs' = certs
               /\ IF Back(p) = "idle"
                    THEN result'.kind = "err" /\ d \in result'.domains
                    ELSE d \in errs'[p]]_vars

\* a call failed after the certificate file was written and the key file was not:
\* the registry still holds the certificate whose key is in the store
C28_Witness ==
  \E d \in Domains :
    /\ result.kind = "err" /\ d \in result.domains
    /\ disk[d].crt.serial = PreSerial + 1
    /\ disk[d].key = PreSerial
    /\ certs[d].serial = PreSerial

\* C24: nothing a caller does to the result of ListCertificates, to the map or to a
\* certificate reached through it, changes the registry or what GetCertificate and
\* CheckCertificateHealth report.
C24_ListIsDefensiveCopy ==
  [][\A c \in Clients, d \in Domains :
       (CallerDeletes(c, d) \/ CallerWrites(c, d)) =>
         /\ certs' = certs
         /\ \A e \in Domains : GetCertificate(certs', e) = GetCertificate(certs, e)
         /\ CheckCertificateHealth(certs', renewalDays, now)
              = CheckCertificateHealth(certs, renewalDays, now)]_vars

\* C31: GetCertificate, ListCertificates and CheckCertificateHealth change nothing:
\* the step in which one of them returns leaves the registry, the storage directory,
\* the adapter's call count and the manager's lock as they were; and GetCertificate
\* returns the not-found error exactly when the registry has no entry for the domain.
C31_ReadsAreSideEffectFree ==
  [][(answer' # answer \/ held' # held) =>
       /\ UNCHANGED <<certs, disk, acmeCalls, mu, renewalDays>>
       /\ (answer' # answer /\ answer'.op = "GetCertificate") =>
            /\ answer'.ok <=> certs[answer'.domain] # NoCert
            /\ answer'.ok => answer'.cert = certs[answer'.domain]]_vars

\* a lookup of a domain without an entry failed while the other domain has an entry
\* that a renewal put there
C31_Witness ==
  /\ answer.op = "GetCertificate" /\ ~answer.ok
  /\ certs[answer.domain] = NoCert
  /\ \E d \in Domains : certs[d] # NoCert /\ certs[d].serial > PreSerial
  /\ \E c \in Clients : held[c] # NoHeld[c]

\* the positions of the tasks whose scheduledAt has passed
Ready(ts, t) == {i \in 1..Len(ts) : t > ts[i].scheduledAt}

\* the position of the earliest added task among the ready tasks of highest priority
Winner(ts, t) ==
  CHOOSE k \in Ready(ts, t) :
    /\ \A i \in Ready(ts, t) : ts[i].priority <= ts[k].priority
    /\ \A i \in Ready(ts, t) : ts[i].priority = ts[k].priority => k <= i

\* C32: GetNextTask returns nil, and leaves the queue alone, when no task's
\* scheduledAt has passed; otherwise it returns the earliest added of the ready tasks
\* of highest priority, and the queue afterwards is the queue before without that one
\* task, the others in their order.
C32_GetNextTaskPicksHighestReady ==
  [][GetNextTask =>
       IF Ready(tasks, now) = {}
         THEN nextTask' = NoTask /\ tasks' = tasks
         ELSE LET k == Winner(tasks, now)
              IN  /\ nextTask' = tasks[k]
                  /\ Len(tasks') = Len(tasks) - 1
                  /\ \A j \in 1..(k - 1) : tasks'[j] = tasks[j]
                  /\ \A j \in k..(Len(tasks) - 1) : tasks'[j] = tasks[j + 1]]_vars

\* GetNextTask returned the second of three tasks: the first was not ready, the third
\* was ready with the same priority
C32_Witness ==
  /\ nextTask # NoTask
  /\ Len(tasks) = 2
  /\ now <= tasks[1].scheduledAt
  /\ now > tasks[2].scheduledAt /\ now > nextTask.scheduledAt
  /\ tasks[2].priority = nextTask.priority
  /\ tasks[1].priority > nextTask.priority

\* C33: a RenewCertificate(D) call that returns an error leaves the registry as it
\* was when the call began: the same domains with the same certificates, also when D
\* had no entry and was loaded from the store before the adapter's renewal failed.
C33_FailedRenewLeavesRegistry ==
  [][\A p \in Clients :
       /\ RenewFails(p) => certs' = pre[p]
       /\ \A d \in Domains :
            (RenewBegin(p, d) /\ pc[p] = "idle" /\ result' = Err("NotFound", {d}))
              => certs' = certs]_vars

\* C34: whatever renewal threshold the loaded configuration carries, every registry
\* entry that is expired is flagged needsRenewal in the health report, so the snapshot
\* of RenewExpiredCertificates and of a renewal check selects every expired entry.
C34_ExpiredIsFlagged ==
  [][\A p \in Clients :
       ((RenewExpiredBegin(p) \/ (PerformSnapshot(p) /\ CtxLive(ctxErr[p]))) =>
          /\ \A d \in DOMAIN CheckCertificateHealth(certs, renewalDays, now) :
               CheckCertificateHealth(certs, renewalDays, now)[d].isExpired
                 => CheckCertificateHealth(certs, renewalDays, now)[d].needsRenewal
          /\ \A d \in Domains :
               (certs[d] # NoCert /\ IsExpired(certs[d], now)) => d \in flagged'[p])]_vars

\* C35: in every state of the scheduler, whatever the interleaving of timer-driven
\* checks, RunOnce, ResetStats and GetStats, successfulRuns + failedRuns <= totalRuns.
C35_FinishedRunsWithinTotal ==
  stats.successfulRuns + stats.failedRuns <= stats.totalRuns

\* C36: without ResetStats, every RenewCertificate call of a renewal check that
\* returned success is counted in certificatesRenewed: when performRenewalWithContext
\* returns, also on timeout or cancellation or with errors for other domains, the
\* counter has grown by the number of renewals that check completed.
C36_RenewedCountsEverySuccess ==
  [][\A p \in Procs :
       (/\ op[p] \in {"check", "RunOnce"}
        /\ pc[p] = "batch"
        /\ pc'[p] \notin {"batch", "renew_acme"})
         => stats'.certificatesRenewed = stats.certificatesRenewed + renewed[p]]_vars

\* C37: a GetStatus call always returns, whatever the calls that take s.mu
\* exclusively beside it: the shared hold GetUptime takes inside GetStatus never
\* blocks for good behind a waiting writer.
C37_GetStatusReturns ==
  \A c \in Clients : (op[c] = "GetStatus") ~> (op[c] # "GetStatus")

\* C38: from the return of Stop() to the next successful Start() the goroutine of
\* run() does not exist: no step of it happens, so it begins no renewal check and
\* calls RenewCertificate no more; checks in that time are those of RunOnce.
C38_NoLoopAfterStop ==
  [][(~isRunning /\ ~isRunning') =>
       /\ pc[Loop] = "idle" /\ pc'[Loop] = "idle"
       /\ call'[Loop] = 0
       /\ stats'.totalRuns = stats.totalRuns]_vars

\* Stop() has returned after the loop made a check, the scheduler is stopped, and a
\* RunOnce is in the middle of its check
C38_Witness ==
  /\ result = Ok("Stop", {})
  /\ ~isRunning
  /\ stats.totalRuns >= 1
  /\ \E c \in Admins : op[c] = "RunOnce" /\ pc[c] = "renew_acme"

\* C39: while no RequestCertificate or RenewCertificate call is in progress, the
\* storage directory agrees with the registry: for every domain of the registry the
\* certificate file holds the bytes of the registry's certificate and the key file
\* holds its key.
C39_StoreAgreesWithRegistry ==
  mu = "none" =>
    \A d \in Domains :
      certs[d] # NoCert => /\ disk[d].crt = PEM(certs[d])
                           /\ disk[d].key = certs[d].serial

\* the directory holds d.crt and d.key of one certificate that parses
StandardLayout(dsk, d) ==
  /\ dsk[d].crt # NoPEM /\ dsk[d].crt.wellFormed
  /\ dsk[d].key = dsk[d].crt.serial

\* C40: for a domain stored in the standard layout NeedsRenewalByDomain returns true
\* exactly when the stored certificate's notAfter is less than 30 days away, and
\* ProcessRenewals selects every stored domain that is within 30 days of expiry.
C40_CheckerFindsDueCertificates ==
  [][\A c \in Clients :
       /\ \A d \in Domains :
            (CallNeedsRenewalByDomain(c, d) /\ StandardLayout(disk, d))
              => (answer'.flag <=> disk[d].crt.notAfter - now < ThresholdDays)
       /\ ProcessRenewals(c) =>
            \A d \in Domains :
              (StandardLayout(disk, d) /\ disk[d].crt.notAfter - now < ThresholdDays)
                => d \in todo'[c]]_vars

====
